---- MODULE Spec2Model ----
(***************************************************************************)
(* A model of mplsoccer's CurvedText artist (src/mplsoccer/curved_text.py):*)
(* the per-process warning latch, construction, set_text/_rebuild,         *)
(* _direction_sign, draw and _layout_line.                                 *)
(*                                                                         *)
(* Numbers.  The code computes in binary floating point.  The model        *)
(* computes in exact rational arithmetic: a number is a pair <<n, d>> with *)
(* d > 0 in lowest terms; the pair <<0, 0>> is NaN, the model's one        *)
(* non-finite value, which every operation propagates and every comparison *)
(* answers with False.  np.pi is the rational 22/7, so that a quarter   *)
(* turn, a half turn and a full turn are exact model values and the        *)
(* boundary comparisons of _direction_sign are decided exactly.  np.sin    *)
(* and np.cos are the piecewise-linear interpolants of sine and cosine     *)
(* through their zeros and extrema: they have the sign, the zeros, the     *)
(* extrema, the period, the symmetries and the intervals of monotonicity   *)
(* of the true functions, which is all that the properties checked here    *)
(* read from them.                                                         *)
(***************************************************************************)
EXTENDS Integers, Sequences, FiniteSets, TLC

(***************************************************************************)
(* Bounds of the model.                                                    *)
(***************************************************************************)
\* longest text handed to the constructor or to set_text in Spec
MaxLen == 3
\* number of CurvedText constructions recorded in one process
MaxCtor == 3
\* the anchor angles of SpecDirection span -MaxTurns .. MaxTurns+1 full turns
MaxTurns == 1
\* longest single-line text of SpecLayout
MaxLineLen == 3
\* most lines of a text of SpecStack
MaxLines == 3
\* most _rebuild calls on one label (the one of __init__ and those of set_text)
MaxRebuilds == 2
\* the number of figures opened with plt.subplots
MaxFigures == 2
\* the number of Speedometer draws on one axes
MaxDraws == 2

(***************************************************************************)
(* Exact rational arithmetic (the model of Python floats).                 *)
(***************************************************************************)
RECURSIVE GCD(_, _)
GCD(a, b) == IF b = 0 THEN a ELSE GCD(b, a % b)

IAbs(i) == IF i < 0 THEN -i ELSE i

\* n/d divided through by g > 0, the denominator made positive
Reduced(n, d, g) == IF d < 0 THEN <<(-n) \div g, (-d) \div g>> ELSE <<n \div g, d \div g>>

\* float("nan")
NaN == <<0, 0>>
IsNaN(a) == a[2] = 0
\* np.isfinite
IsFinite(a) == a[2] # 0

\* the rational n/d in lowest terms with a positive denominator; NaN if d = 0
Rat(n, d) == IF d = 0 THEN NaN ELSE Reduced(n, d, GCD(IAbs(n), IAbs(d)))

Int2R(i) == <<i, 1>>
Zero == <<0, 1>>

RAdd(a, b) == Rat(a[1] * b[2] + b[1] * a[2], a[2] * b[2])
RNeg(a) == <<-a[1], a[2]>>
RSub(a, b) == RAdd(a, RNeg(b))
RMul(a, b) == Rat(a[1] * b[1], a[2] * b[2])
\* a / b for b # 0 (Python raises ZeroDivisionError for a float b = 0: see
\* DividesByZero)
RDiv(a, b) == Rat(a[1] * b[2], a[2] * b[1])
RLt(a, b) == a[1] * b[2] < b[1] * a[2]
RLe(a, b) == a[2] # 0 /\ b[2] # 0 /\ a[1] * b[2] <= b[1] * a[2]
RAbs(a) == <<IAbs(a[1]), a[2]>>
RMax(a, b) == IF RLt(a, b) THEN b ELSE a
\* floor(a) of a finite a: \div rounds towards minus infinity
RFloor(a) == a[1] \div a[2]
\* Python's a % b for b > 0: a - floor(a / b) * b, in [0, b); nan % b is nan
RMod(a, b) == IF IsNaN(a) THEN NaN ELSE RSub(a, RMul(Int2R(RFloor(RDiv(a, b))), b))
\* the integer s (+1 or -1) times a
RSigned(s, a) == <<s * a[1], a[2]>>

RECURSIVE RSum(_)
RSum(seq) == IF seq = <<>> THEN Zero ELSE RAdd(Head(seq), RSum(Tail(seq)))

(***************************************************************************)
(* np.pi, np.sin, np.cos, np.rad2deg.                                      *)
(***************************************************************************)
Pi == Rat(22, 7)
HalfPi == Rat(11, 7)
ThreeHalfPi == Rat(33, 7)
TwoPi == Rat(44, 7)

\* the sine of t in [0, 2*pi)
SinReduced(t) ==
    IF RLe(t, HalfPi) THEN RDiv(t, HalfPi)
    ELSE IF RLe(t, ThreeHalfPi) THEN RDiv(RSub(Pi, t), HalfPi)
    ELSE RDiv(RSub(t, TwoPi), HalfPi)

NpSin(theta) == SinReduced(RMod(theta, TwoPi))

NpCos(theta) == NpSin(RAdd(theta, HalfPi))

\* np.rad2deg(x) = x * 180 / pi
Rad2Deg(x) == RDiv(RMul(x, Int2R(180)), Pi)

(***************************************************************************)
(* Text: a Python str is a sequence of one-character strings.  The model's *)
(* alphabet has two visible characters, the space and the line boundary    *)
(* "\n".                                                                   *)
(***************************************************************************)
Visible == {"A", "B"}
Alphabet == Visible \cup {" ", "\n"}

\* str.isspace() of one character
IsSpace(ch) == ch \in {" ", "\n"}

\* str.splitlines(): a line ends at each "\n"; what follows the last "\n" is
\* a line only when it is not empty, so "" has no line and "A\n" has one
RECURSIVE SplitFrom(_, _)
SplitFrom(text, cur) ==
    IF text = <<>> THEN (IF cur = <<>> THEN <<>> ELSE <<cur>>)
    ELSE IF Head(text) = "\n" THEN <<cur>> \o SplitFrom(Tail(text), <<>>)
    ELSE SplitFrom(Tail(text), Append(cur, Head(text)))

SplitLines(text) == SplitFrom(text, <<>>)

\* all strings over S of length at most n
StringsUpTo(S, n) == UNION {[1..m -> S] : m \in 0..n}

(***************************************************************************)
(* The host's font service.  A font gives each character its advance width *)
(* and its extent above (asc) and below (desc) the baseline, in points;    *)
(* "B" is a tall character (taller than the probe "lp").                   *)
(***************************************************************************)
Proportional ==
    [size |-> 10,
     adv  |-> [c \in Alphabet |-> CASE c = "A" -> 6 [] c = "B" -> 4 [] OTHER -> 3],
     asc  |-> [c \in Alphabet |-> CASE c = "A" -> 7 [] c = "B" -> 12 [] OTHER -> 0],
     desc |-> [c \in Alphabet |-> CASE c = "A" -> 0 [] c = "B" -> 2 [] OTHER -> 0],
     lpAsc |-> 8, lpDesc |-> 2]

IMax(a, b) == IF a < b THEN b ELSE a

RECURSIVE MaxOver(_, _)
MaxOver(f, chars) ==
    IF chars = <<>> THEN 0 ELSE IMax(f[Head(chars)], MaxOver(f, Tail(chars)))

\* text_to_path.get_text_width_height_descent(ch, prop)[0] of one character
AdvancePt(font, ch) == Int2R(font.adv[ch])

\* (h, d) of text_to_path.get_text_width_height_descent(text, prop): the
\* height of the text's bounding box and its descent below the baseline
TextHeightPt(font, chars) == Int2R(MaxOver(font.asc, chars) + MaxOver(font.desc, chars))
TextDescentPt(font, chars) == Int2R(MaxOver(font.desc, chars))
\* the same for the probe "lp"
ProbeHeightPt(font) == Int2R(font.lpAsc + font.lpDesc)
ProbeDescentPt(font) == Int2R(font.lpDesc)

(***************************************************************************)
(* The host's view: axes.transData maps data (x, y) to device              *)
(* (k*x + tx, sy*k*y + ty) with k > 0 pixels per data unit and sy = -1     *)
(* for an inverted vertical axis; figure.dpi gives pixels per inch.        *)
(***************************************************************************)
TransData(v, p) ==
    <<RAdd(RMul(Int2R(v.k), p[1]), Int2R(v.tx)),
      RAdd(RMul(Int2R(v.sy * v.k), p[2]), Int2R(v.ty))>>

\* np.hypot of the device-space image of the data-space vector
\* len * (sin(theta), cos(theta)): transData scales every direction by k;
\* nan if theta is
HypotRadial(v, len, theta) == IF IsNaN(theta) THEN NaN ELSE RMul(Int2R(v.k), RAbs(len))

PtToPx(d) == Rat(d, 72)

(***************************************************************************)
(* Optional values: <<>> is None (or an attribute not set), <<x>> holds x. *)
(***************************************************************************)
None == <<>>
IsNone(o) == Len(o) = 0

(***************************************************************************)
(* CurvedText._rebuild and get_children.                                   *)
(*                                                                         *)
(* A glyph is the PathPatch built for one non-whitespace character: its    *)
(* stashed character and, once a draw has placed it, its data-space anchor *)
(* (position), its rotation in degrees and the device-space translation of *)
(* its transform (px).  A PathPatch is an object: `made` is the serial      *)
(* number, among the _rebuild calls on the label, of the call that         *)
(* constructed it, so that the glyphs at the same place of two states are  *)
(* the same object exactly when they have the same `made`.                 *)
(***************************************************************************)
\* NewGlyph returning the object of the first _rebuild again
NewGlyphPooled(ch, made) ==
    [char |-> ch, made |-> 1, position |-> None, rotation |-> None, px |-> None]

NewGlyph(ch, made) ==
    [char |-> ch, made |-> made, position |-> None, rotation |-> None, px |-> None]

\* BuildArtists without the isspace() test: a glyph for every character
BuildArtistsNoSkip(chars, made) == [i \in 1..Len(chars) |-> <<NewGlyph(chars[i], made)>>]

\* the artists of one line: None for a whitespace character, a new glyph
\* for any other
BuildArtists(chars, made) ==
    [i \in 1..Len(chars) |->
        IF IsSpace(chars[i]) THEN None ELSE <<NewGlyph(chars[i], made)>>]

\* _LineGlyphs(text=line, chars=list(line), artists=artists)
LineGlyphs(line, made) ==
    [text |-> line, chars |-> line, artists |-> BuildArtists(line, made)]

\* Cleared without the clear(): the old lines stay
Kept(lines) == lines

\* self._lines.clear()
Cleared(lines) == <<>>

\* LinesOf without the `or [""]`
LinesOfNoDefault(text) == SplitLines(text)

\* self._text.splitlines() or [""]
LinesOf(text) == IF SplitLines(text) = <<>> THEN << <<>> >> ELSE SplitLines(text)

\* _rebuild: the new value of self._lines; old is its value before the call
\* and made the serial number of the call
Rebuild(old, text, made) ==
    Cleared(old) \o [i \in 1..Len(LinesOf(text)) |-> LineGlyphs(LinesOf(text)[i], made)]

\* the glyphs of one line, in order, Nones dropped
RECURSIVE GlyphsOf(_)
GlyphsOf(artists) ==
    IF artists = <<>> THEN <<>>
    ELSE (IF IsNone(Head(artists)) THEN <<>> ELSE Head(artists)) \o GlyphsOf(Tail(artists))

\* get_children()
RECURSIVE GetChildren(_)
GetChildren(lines) ==
    IF lines = <<>> THEN <<>>
    ELSE GlyphsOf(Head(lines).artists) \o GetChildren(Tail(lines))

\* DirectionSign without the reduction of theta modulo 2*pi
DirectionSignNoMod(direction, theta) ==
    IF direction = "clockwise" THEN 1
    ELSE IF direction = "counterclockwise" THEN -1
    ELSE IF RLt(HalfPi, theta) /\ RLt(theta, ThreeHalfPi) THEN -1 ELSE 1

(***************************************************************************)
(* CurvedText._direction_sign.                                             *)
(***************************************************************************)
DirectionSign(direction, theta) ==
    IF direction = "clockwise" THEN 1
    ELSE IF direction = "counterclockwise" THEN -1
    ELSE LET t == RMod(theta, TwoPi)
         IN  IF RLt(HalfPi, t) /\ RLt(t, ThreeHalfPi) THEN -1 ELSE 1

(***************************************************************************)
(* CurvedText._layout_line.  The result is the line's artists after the    *)
(* call, the characters handed to artist.draw, in order, and the values of *)
(* the call's locals that the properties speak of (radius_px and, for      *)
(* every character index, theta_i); radius_px is None and thetas is empty  *)
(* when the call returned before computing them.                           *)
(***************************************************************************)
\* GlyphRotation without the half turn of the counterclockwise direction
GlyphRotationNoFlip(theta_i, direction_sign) == RNeg(Rad2Deg(theta_i))

\* rotation of a glyph at angle theta_i
GlyphRotation(theta_i, direction_sign) ==
    IF direction_sign = -1
    THEN RAdd(RNeg(Rad2Deg(theta_i)), Int2R(180))
    ELSE RNeg(Rad2Deg(theta_i))

\* AlignedStart with 'center' shifting by the whole extent
AlignedStartFullShift(align, start_theta, direction_sign, total_width_px, radius_px) ==
    IF align = "center" \/ align = "end"
    THEN RSub(start_theta, RSigned(direction_sign, RDiv(total_width_px, radius_px)))
    ELSE start_theta

\* AlignedStart shifting along the direction instead of against it
AlignedStartForward(align, start_theta, direction_sign, total_width_px, radius_px) ==
    IF align = "center"
    THEN RAdd(start_theta,
              RSigned(direction_sign, RDiv(total_width_px, RMul(Int2R(2), radius_px))))
    ELSE IF align = "end"
    THEN RAdd(start_theta, RSigned(direction_sign, RDiv(total_width_px, radius_px)))
    ELSE start_theta

\* the start angle after alignment
AlignedStart(align, start_theta, direction_sign, total_width_px, radius_px) ==
    IF align = "center"
    THEN RSub(start_theta,
              RSigned(direction_sign, RDiv(total_width_px, RMul(Int2R(2), radius_px))))
    ELSE IF align = "end"
    THEN RSub(start_theta, RSigned(direction_sign, RDiv(total_width_px, radius_px)))
    ELSE start_theta

\* advances_px: the advance of each character of the line, in pixels
RECURSIVE AdvancesPx(_, _, _)
AdvancesPx(font, text, pt_to_px) ==
    IF text = <<>> THEN <<>>
    ELSE <<RMul(AdvancePt(font, Head(text)), pt_to_px)>>
            \o AdvancesPx(font, Tail(text), pt_to_px)

\* TotalWidthPx with one letter spacing per character
TotalWidthPxEverySpacing(advances_px, letter_spacing_px) ==
    RAdd(RSum(advances_px), RMul(letter_spacing_px, Int2R(Len(advances_px))))

\* total_width_px
TotalWidthPx(advances_px, letter_spacing_px) ==
    RAdd(RSum(advances_px),
         IF Len(advances_px) > 1
         THEN RMul(letter_spacing_px, Int2R(Len(advances_px) - 1))
         ELSE Zero)

\* Step without `cumulative += letter_spacing_px`
StepNoSpacing(adv_px, letter_spacing_px, idx, n) == adv_px

\* Step without `cumulative += adv_px`
StepNoAdvance(adv_px, letter_spacing_px, idx, n) ==
    IF idx < n - 1 THEN letter_spacing_px ELSE Zero

\* the increment of cumulative at the end of the iteration with (0-based) idx
Step(adv_px, letter_spacing_px, idx, n) ==
    RAdd(adv_px, IF idx < n - 1 THEN letter_spacing_px ELSE Zero)

\* ThetaI at the leading edge of the character: without half its advance
ThetaILeadingEdge(start, direction_sign, cumulative, adv_px, radius_px) ==
    RAdd(start, RSigned(direction_sign, RDiv(cumulative, radius_px)))

\* theta_i of the iteration that starts with this cumulative
ThetaI(start, direction_sign, cumulative, adv_px, radius_px) ==
    RAdd(start,
         RSigned(direction_sign,
                 RDiv(RAdd(cumulative, RDiv(adv_px, Int2R(2))), radius_px)))

\* GlyphXY on the magnitude of radius_data
GlyphXYAbs(center, radius_data, theta_i) ==
    <<RAdd(center[1], RMul(RAbs(radius_data), NpSin(theta_i))),
      RAdd(center[2], RMul(RAbs(radius_data), NpCos(theta_i)))>>

\* (x_i, y_i)
GlyphXY(center, radius_data, theta_i) ==
    <<RAdd(center[1], RMul(radius_data, NpSin(theta_i))),
      RAdd(center[2], RMul(radius_data, NpCos(theta_i)))>>

\* Placed without the two stashed attributes: only the transform is set
PlacedNoStash(artist, v, xy, rotation) ==
    IF IsNone(artist) THEN None
    ELSE << [artist[1] EXCEPT !.px = <<TransData(v, xy)>>] >>

\* Placed with a pose cache: a glyph that has a pose keeps it
PlacedOnce(artist, v, xy, rotation) ==
    IF IsNone(artist) THEN None
    ELSE IF ~IsNone(artist[1].position) THEN artist
    ELSE << [artist[1] EXCEPT !.position = <<xy>>,
                              !.rotation = <<rotation>>,
                              !.px = <<TransData(v, xy)>>] >>

\* the artist after the iteration: None stays None, a glyph gets its
\* transform, its stashed position and its stashed rotation
Placed(artist, v, xy, rotation) ==
    IF IsNone(artist) THEN None
    ELSE << [artist[1] EXCEPT !.position = <<xy>>,
                              !.rotation = <<rotation>>,
                              !.px = <<TransData(v, xy)>>] >>

\* one iteration of the loop: theta_i and the artist after it
Iteration(artist, v, center, radius_data, direction_sign, theta_i) ==
    [theta |-> theta_i,
     artist |-> Placed(artist, v, GlyphXY(center, radius_data, theta_i),
                       GlyphRotation(theta_i, direction_sign))]

\* the loop over the characters from (0-based) idx on
RECURSIVE Walk(_, _, _, _, _, _, _, _, _, _, _)
Walk(artists, v, center, radius_data, direction_sign, radius_px, advances_px, letter_spacing_px, start, idx, cumulative) ==
    IF idx >= Len(advances_px) THEN <<>>
    ELSE <<Iteration(artists[idx + 1], v, center, radius_data, direction_sign,
                     ThetaI(start, direction_sign, cumulative,
                            advances_px[idx + 1], radius_px))>>
         \o Walk(artists, v, center, radius_data, direction_sign, radius_px,
                 advances_px, letter_spacing_px, start, idx + 1,
                 RAdd(cumulative,
                      Step(advances_px[idx + 1], letter_spacing_px, idx,
                           Len(advances_px))))

RECURSIVE Field(_, _)
Field(recs, name) ==
    IF recs = <<>> THEN <<>> ELSE <<Head(recs)[name]>> \o Field(Tail(recs), name)

\* the part of _layout_line that follows the radius_px test
LaidOut(lbl, v, line, radius_data, start_theta, direction_sign, radius_px, advances_px, letter_spacing_px) ==
    LET walked ==
            Walk(line.artists, v, lbl.center, radius_data, direction_sign, radius_px,
                 advances_px, letter_spacing_px,
                 AlignedStart(lbl.align, start_theta, direction_sign,
                              TotalWidthPx(advances_px, letter_spacing_px), radius_px),
                 0, Zero)
    IN  [artists |-> Field(walked, "artist"),
         drawn |-> Field(GlyphsOf(line.artists), "char"),
         radius_px |-> <<radius_px>>,
         thetas |-> Field(walked, "theta"),
         raised |-> FALSE]

\* SkipsLine without the test: no line is skipped
SkipsLineNever(radius_px) == FALSE

\* not np.isfinite(radius_px) or radius_px <= 0
SkipsLine(radius_px) == ~IsFinite(radius_px) \/ RLe(radius_px, Zero)

\* a division of Python floats by this divisor raises ZeroDivisionError
DividesByZero(divisor) == divisor = Zero

\* _layout_line left before its loop: by a return, or by an exception
NotLaidOut(line, raised) ==
    [artists |-> line.artists, drawn |-> <<>>, radius_px |-> None, thetas |-> <<>>,
     raised |-> raised]

\* _layout_line from the radius_px test on; the first division by radius_px
\* is that of theta_i (or of the alignment shift)
LayoutFrom(lbl, v, dpi, line, radius_data, start_theta, direction_sign, radius_px) ==
    IF SkipsLine(radius_px) THEN NotLaidOut(line, FALSE)
    ELSE IF DividesByZero(radius_px) THEN NotLaidOut(line, TRUE)
    ELSE LaidOut(lbl, v, line, radius_data, start_theta, direction_sign,
                 radius_px,
                 AdvancesPx(lbl.font, line.text, PtToPx(dpi)),
                 RMul(lbl.letter_spacing, PtToPx(dpi)))

LayoutLine(lbl, v, dpi, line, radius_data, start_theta, direction_sign) ==
    IF Len(line.chars) = 0 THEN NotLaidOut(line, FALSE)
    ELSE LayoutFrom(lbl, v, dpi, line, radius_data, start_theta, direction_sign,
                    HypotRadial(v, radius_data, start_theta))

(***************************************************************************)
(* CurvedText.draw.                                                        *)
(***************************************************************************)
\* delta_r = max(1e-6, abs(r0) * 1e-3)
DeltaR(r0) == RMax(Rat(1, 1000000), RMul(RAbs(r0), Rat(1, 1000)))

\* the data-space point at radius r along the anchor direction
RadialPoint(lbl, r) ==
    <<RAdd(lbl.center[1], RMul(r, NpSin(lbl.theta))),
      RAdd(lbl.center[2], RMul(r, NpCos(lbl.theta)))>>

\* OutwardIsUp without the comparison: outward is taken to be up
OutwardIsUpAlways(lbl, v) == TRUE

\* outward_is_up = bool(p1_px[1] >= p0_px[1])
OutwardIsUp(lbl, v) ==
    RLe(TransData(v, RadialPoint(lbl, lbl.radius))[2],
        TransData(v, RadialPoint(lbl, RAdd(lbl.radius, DeltaR(lbl.radius))))[2])

\* px_per_data_radial = hypot(p1_px - p0_px) / delta_r
PxPerDataRadial(lbl, v) ==
    RDiv(HypotRadial(v, RSub(RAdd(lbl.radius, DeltaR(lbl.radius)), lbl.radius), lbl.theta),
         DeltaR(lbl.radius))

\* LineSpacingPoints testing the truth of line_spacing instead of `is not
\* None`: an explicit 0 falls back to fontsize * linespacing
LineSpacingPointsZeroUnset(lbl) ==
    IF IsNone(lbl.line_spacing) \/ lbl.line_spacing = <<Zero>>
    THEN RMul(Int2R(lbl.font.size), lbl.linespacing)
    ELSE lbl.line_spacing[1]

\* line_spacing_points: the explicit line_spacing, else fontsize * linespacing
LineSpacingPoints(lbl) ==
    IF IsNone(lbl.line_spacing)
    THEN RMul(Int2R(lbl.font.size), lbl.linespacing)
    ELSE lbl.line_spacing[1]

\* line_spacing_data
LineSpacingData(lbl, v, dpi) ==
    RDiv(RMul(LineSpacingPoints(lbl), PtToPx(dpi)), PxPerDataRadial(lbl, v))

\* OffsetFactor with half = num_lines / 2 in 'center' mode
OffsetFactorHalfLines(radii, outward_is_up, num_lines, line_idx) ==
    IF radii = "center"
    THEN IF outward_is_up THEN RSub(Rat(num_lines, 2), Int2R(line_idx))
         ELSE RSub(Int2R(line_idx), Rat(num_lines, 2))
    ELSE IF outward_is_up THEN Int2R((num_lines - 1) - line_idx)
         ELSE Int2R(line_idx)

\* OffsetFactor without the test of outward_is_up
OffsetFactorNoFlip(radii, outward_is_up, num_lines, line_idx) ==
    IF radii = "center" THEN RSub(Int2R(line_idx), Rat(num_lines - 1, 2))
    ELSE Int2R(line_idx)

\* offset_factor of the line with (0-based) line_idx
OffsetFactor(radii, outward_is_up, num_lines, line_idx) ==
    IF radii = "center"
    THEN IF outward_is_up THEN RSub(Rat(num_lines - 1, 2), Int2R(line_idx))
         ELSE RSub(Int2R(line_idx), Rat(num_lines - 1, 2))
    ELSE IF outward_is_up THEN Int2R((num_lines - 1) - line_idx)
         ELSE Int2R(line_idx)

\* radius_data_center
RadiusDataCenter(radius, offset_factor, line_spacing_data) ==
    RAdd(radius, RMul(offset_factor, line_spacing_data))

\* center_to_baseline_data of a line
CenterToBaselineData(font, line, dpi, px_per_data_radial) ==
    RDiv(RMul(RSub(RDiv(RMax(TextHeightPt(font, line.text), ProbeHeightPt(font)),
                        Int2R(2)),
                   RMax(TextDescentPt(font, line.text), ProbeDescentPt(font))),
              PtToPx(dpi)),
         px_per_data_radial)

\* RadiusDataBaseline with the whole line height in place of half of it:
\* twice the correction
RadiusDataBaselineFullHeight(radius_data_center, direction_sign, center_to_baseline_data) ==
    RSub(radius_data_center,
         RSigned(direction_sign, RMul(Int2R(2), center_to_baseline_data)))

\* radius_data_baseline
RadiusDataBaseline(radius_data_center, direction_sign, center_to_baseline_data) ==
    RSub(radius_data_center, RSigned(direction_sign, center_to_baseline_data))

\* one iteration of draw's loop: the arguments of the _layout_line call
\* and what the call did
LineCall(lbl, v, dpi, line_idx, radius_data, direction_sign) ==
    [line_idx |-> line_idx,
     radius_data |-> radius_data,
     start_theta |-> lbl.theta,
     direction_sign |-> direction_sign,
     did |-> LayoutLine(lbl, v, dpi, lbl.lines[line_idx + 1], radius_data,
                        lbl.theta, direction_sign)]

\* draw's loop over the lines from (0-based) line_idx on; an exception in
\* a _layout_line call ends it
RECURSIVE DrawLoop(_, _, _, _, _, _, _, _)
RECURSIVE DrawFrom(_, _, _, _, _, _, _, _, _)
DrawFrom(lbl, v, dpi, direction_sign, outward_is_up, px_per_data_radial, line_spacing_data, line_idx, call) ==
    IF call.did.raised THEN <<call>>
    ELSE <<call>> \o DrawLoop(lbl, v, dpi, direction_sign, outward_is_up, px_per_data_radial,
                              line_spacing_data, line_idx + 1)

DrawLoop(lbl, v, dpi, direction_sign, outward_is_up, px_per_data_radial, line_spacing_data, line_idx) ==
    IF line_idx >= Len(lbl.lines) THEN <<>>
    ELSE DrawFrom(lbl, v, dpi, direction_sign, outward_is_up, px_per_data_radial,
                  line_spacing_data, line_idx,
           LineCall(lbl, v, dpi, line_idx,
                    RadiusDataBaseline(
                        RadiusDataCenter(lbl.radius,
                                         OffsetFactor(lbl.radii, outward_is_up,
                                                      Len(lbl.lines), line_idx),
                                         line_spacing_data),
                        direction_sign,
                        CenterToBaselineData(lbl.font, lbl.lines[line_idx + 1], dpi,
                                             px_per_data_radial)),
                    direction_sign))

\* DrawReturnsEarly without the test of px_per_data_radial
DrawReturnsEarlyUnlessHidden(lbl, v) ==
    \/ ~lbl.visible
    \/ IsNone(lbl.axes) \/ IsNone(lbl.figure)

\* DrawReturnsEarly without the two tests at the top of draw
DrawReturnsEarlyDegenerateOnly(lbl, v) == ~RLt(Zero, PxPerDataRadial(lbl, v))

\* whether draw returns before its loop
DrawReturnsEarly(lbl, v) ==
    \/ ~lbl.visible
    \/ IsNone(lbl.axes) \/ IsNone(lbl.figure)
    \/ ~RLt(Zero, PxPerDataRadial(lbl, v))

RECURSIVE Concat(_)
Concat(seqs) == IF seqs = <<>> THEN <<>> ELSE Head(seqs) \o Concat(Tail(seqs))

RECURSIVE LinesAfter(_, _)
LinesAfter(lines, looped) ==
    IF lines = <<>> THEN <<>>
    ELSE IF looped = <<>> THEN lines
    ELSE <<[Head(lines) EXCEPT !.artists = Head(looped).did.artists]>>
         \o LinesAfter(Tail(lines), Tail(looped))

RECURSIVE CallsOf(_)
CallsOf(looped) ==
    IF looped = <<>> THEN <<>>
    ELSE <<[line_idx |-> Head(looped).line_idx,
            radius_data |-> Head(looped).radius_data,
            start_theta |-> Head(looped).start_theta,
            direction_sign |-> Head(looped).direction_sign,
            radius_px |-> Head(looped).did.radius_px,
            thetas |-> Head(looped).did.thetas,
            drawn |-> Head(looped).did.drawn]>>
         \o CallsOf(Tail(looped))

\* what draw's loop left: the lines, the calls, the characters drawn
Drawn(lbl, looped) ==
    [lines |-> LinesAfter(lbl.lines, looped),
     calls |-> CallsOf(looped),
     rendered |-> Concat(Field(Field(looped, "did"), "drawn")),
     raised |-> looped # <<>> /\ looped[Len(looped)].did.raised]

\* draw: the lines after the call, the _layout_line calls made (line index,
\* arguments and locals) and the characters drawn, in order
DrawResult(lbl, v, dpi) ==
    IF DrawReturnsEarly(lbl, v)
    THEN [lines |-> lbl.lines, calls |-> <<>>, rendered |-> <<>>, raised |-> FALSE]
    ELSE IF DividesByZero(PxPerDataRadial(lbl, v))
    THEN [lines |-> lbl.lines, calls |-> <<>>, rendered |-> <<>>, raised |-> TRUE]
    ELSE Drawn(lbl, DrawLoop(lbl, v, dpi, DirectionSign(lbl.direction, lbl.theta),
                             OutwardIsUp(lbl, v), PxPerDataRadial(lbl, v),
                             LineSpacingData(lbl, v, dpi), 0))

(***************************************************************************)
(* The Speedometer (speedometer.py).  Numbers are exact rationals, angles  *)
(* are in degrees, colours are strings.                                    *)
(***************************************************************************)
\* the default colours of Speedometer.__init__
DefaultColors == <<"#d7191c", "#fdae61", "#ffffbf", "#abd9e9", "#2c7bb6">>

\* the default segments_per_color, start_angle and end_angle
DefaultSegmentsPerColor == 5
DefaultStartAngle == -30
DefaultEndAngle == 210

\* an exception of the given type with the given message
Raises(type, message) == <<[type |-> type, message |-> message]>>

\* the outcome of a call that raised: nothing is returned
Raised(type, message) == [raised |-> Raises(type, message), self |-> None]

\* InvalidRange with a strict comparison
InvalidRangeStrict(start_value, end_value) == RLt(end_value, start_value)

\* end_value <= start_value
InvalidRange(start_value, end_value) == RLe(end_value, start_value)

\* colors is not None and len(colors) == 0
EmptyColors(colors) == ~IsNone(colors) /\ Len(colors[1]) = 0

\* radius <= 0
InvalidRadius(radius) == RLe(radius, Zero)

\* np.repeat(a, repeats): every element repeats times in turn; a negative
\* count makes numpy raise ValueError (the wording of its message is
\* numpy's and varies with its version)
Repeat(a, repeats) == [i \in 1..(Len(a) * repeats) |-> a[((i - 1) \div repeats) + 1]]

\* self.colors
ColorsOf(colors) == IF IsNone(colors) THEN DefaultColors ELSE colors[1]

\* the attributes assigned by Speedometer.__init__ (those the model follows)
Attributes(a) ==
    [start_value |-> a.start_value,
     end_value |-> a.end_value,
     center |-> <<Zero, Zero>>,
     radius |-> a.radius,
     colors |-> ColorsOf(a.colors),
     segments_per_color |-> a.segments_per_color,
     start_angle |-> a.start_angle,
     end_angle |-> a.end_angle,
     snap_to_pos |-> a.snap_to_pos,
     n_colors |-> Len(ColorsOf(a.colors)),
     expanded_colors |-> Repeat(ColorsOf(a.colors), a.segments_per_color),
     n_segments |-> a.segments_per_color * Len(ColorsOf(a.colors))]

\* Speedometer.__init__ with the arguments a: the exception raised or the
\* object constructed
SpeedometerInit(a) ==
    IF InvalidRange(a.start_value, a.end_value)
    THEN Raised("ValueError", "end_value must be greater than start_value")
    ELSE IF EmptyColors(a.colors)
    THEN Raised("ValueError", "colors list cannot be empty")
    ELSE IF InvalidRadius(a.radius)
    THEN Raised("ValueError", "radius must be positive")
    ELSE IF a.segments_per_color < 0
    THEN Raised("ValueError", "repeats may not contain negative values.")
    ELSE [raised |-> None, self |-> <<Attributes(a)>>]

\* np.linspace(start, stop, num, endpoint=True), as an array
Linspace(start, stop, num) ==
    SubSeq([i \in 1..num |->
               IF num = 1 THEN start
               ELSE RAdd(start, RDiv(RMul(Int2R(i - 1), RSub(stop, start)), Int2R(num - 1)))],
           1, num)

\* np.c_[start_, end_] and mid_points = start_ + ((end_ - start_) / 2.0)
Segments(start_, end_) ==
    [angle_range |-> [i \in 1..Len(start_) |-> <<start_[i], end_[i]>>],
     mid_points |-> SubSeq([i \in 1..Len(start_) |->
                               RAdd(start_[i], RDiv(RSub(end_[i], start_[i]), Int2R(2)))],
                           1, Len(start_))]

\* _degree_range(n, start, end): the start and end angle of each of the n
\* segments, and their midpoints
DegreeRange(n, start, end) ==
    Segments(SubSeq(Linspace(start, end, n + 1), 1, n),
             SubSeq(Linspace(start, end, n + 1), 2, n + 1))

\* _rotate(angle) = angle - 90 (degrees)
Rotate(angle) == RSub(angle, Int2R(90))

\* np.argmin(a) of a non-empty array: the 0-based index of the first minimum
ArgMin(a) ==
    (CHOOSE i \in 1..Len(a) :
        /\ \A j \in 1..Len(a) : RLe(a[i], a[j])
        /\ \A j \in 1..(i - 1) : RLt(a[i], a[j])) - 1

\* whether a[i] is in range for a 0-based index i that may be negative
InRange(a, i) == -Len(a) <= i /\ i <= Len(a) - 1

\* a[i] for a 0-based index i that may be negative
Item(a, i) == IF i < 0 THEN a[Len(a) + i + 1] ELSE a[i + 1]

\* a[-1::-1]
Reversed(a) == [i \in 1..Len(a) |-> a[Len(a) - i + 1]]

\* midpoint_values and edge_values of Speedometer.draw
MidpointValues(self) == Linspace(self.start_value, self.end_value, self.n_segments)
EdgeValues(self) == Linspace(self.start_value, self.end_value, self.n_segments + 1)

\* np.abs(midpoint_values - value)
Distances(midpoint_values, value) ==
    SubSeq([i \in 1..Len(midpoint_values) |-> RAbs(RSub(midpoint_values[i], value))],
           1, Len(midpoint_values))

\* arrow_index
ArrowIndex(midpoint_values, value) == ArgMin(Distances(midpoint_values, value))

\* annotation_angles: the start angle of every segment and the end angle of
\* the last one
AnnotationAngles(self) ==
    Linspace(Int2R(self.start_angle), Int2R(self.end_angle), self.n_segments + 1)

\* the label of a float: the integer it equals, else the float rounded to
\* two decimals (exact numbers: the rounding to ten decimals before changes
\* nothing)
FormatLabel(x) ==
    IF x[2] = 1 THEN x
    ELSE Rat(RFloor(RAdd(RMul(x, Int2R(100)), Rat(1, 2))), 100)

\* the default labels: '' (None) everywhere except every segments_per_color
\* edges, which carry n_colors + 1 evenly spaced values
Labels(self, label_vals) ==
    [i \in 1..(self.n_segments + 1) |->
        IF (i - 1) % self.segments_per_color = 0
        THEN <<label_vals[((i - 1) \div self.segments_per_color) + 1]>>
        ELSE None]

\* the values of the default labels:
\* np.linspace(self.start_value, self.end_value, self.n_colors + 1)
LabelValues(self) == Linspace(self.start_value, self.end_value, self.n_colors + 1)

\* the two Wedge patches of every segment, one record per segment: its
\* angles, its colour and whether it is drawn with fade_alpha and
\* fade_hatch (else with alpha 1 and no hatch)
Wedges(self, angle_range, edge_values, arrow_value) ==
    [j \in 1..self.n_segments |->
        [theta1 |-> angle_range[j][1],
         theta2 |-> angle_range[j][2],
         color |-> self.expanded_colors[j],
         faded |-> RLe(arrow_value, Item(edge_values, -2 - (j - 1)))]]

\* the label texts around the arc (draw_labels, labels=None,
\* rotate_labels=False): angle, text and rotation of each
LabelTexts(self, annotation_angles, label_vals) ==
    [i \in 1..(self.n_segments + 1) |->
        [angle |-> annotation_angles[i],
         label |-> IF IsNone(Reversed(Labels(self, label_vals))[i]) THEN None
                   ELSE <<FormatLabel(Reversed(Labels(self, label_vals))[i][1])>>,
         rotation |-> RAdd(Rotate(annotation_angles[i]),
                           IF RLt(annotation_angles[i], Zero)
                              \/ RLt(Int2R(180), annotation_angles[i])
                           THEN Int2R(180) ELSE Zero)]]

\* SnapIndex counted from the front of the reversed midpoints
SnapIndexPastEnd(arrow_index, n) == arrow_index + n

\* the index into midpoints[-1::-1] when snapping:
\* arrow_index - len(self._expanded_colors)
SnapIndex(arrow_index, n) == arrow_index - n

\* ProportionalAngle measured from start_angle upwards
ProportionalAngleFromStart(self, value) ==
    RAdd(Int2R(self.start_angle),
         RMul(RDiv(RSub(value, self.start_value), RSub(self.end_value, self.start_value)),
              Int2R(self.end_angle - self.start_angle)))

\* the arrow angle without snapping
ProportionalAngle(self, value) ==
    RSub(Int2R(self.end_angle),
         RMul(RDiv(RSub(value, self.start_value), RSub(self.end_value, self.start_value)),
              Int2R(self.end_angle - self.start_angle)))

\* the arrow angle when snapping
SnappedAngle(self, midpoints, arrow_index) ==
    Item(Reversed(midpoints), SnapIndex(arrow_index, Len(self.expanded_colors)))

\* the outcome of a draw that raised
DrawRaised(type, message) == [raised |-> Raises(type, message), drawn |-> None]

\* Speedometer.draw from the arrow angle on (lines 363 to 415), with the
\* wedges and labels already on the axes
DrawArrow(self, value, degrees, edge_values, arrow_index, arrow_value) ==
    IF self.snap_to_pos
       /\ ~InRange(Reversed(degrees.mid_points),
                   SnapIndex(arrow_index, Len(self.expanded_colors)))
    THEN DrawRaised("IndexError", "index out of bounds")
    ELSE IF ~self.snap_to_pos /\ RSub(self.end_value, self.start_value) = Zero
    THEN DrawRaised("ZeroDivisionError", "division by zero")
    ELSE [raised |-> None,
          drawn |-> <<[wedges |-> Wedges(self, degrees.angle_range, edge_values, arrow_value),
                       labels |-> LabelTexts(self, AnnotationAngles(self), LabelValues(self)),
                       arrow_index |-> arrow_index,
                       arrow_value |-> arrow_value,
                       arrow_angle |-> IF self.snap_to_pos
                                       THEN SnappedAngle(self, degrees.mid_points, arrow_index)
                                       ELSE ProportionalAngle(self, value),
                       annotation |-> value]>>]

\* Speedometer.draw from arrow_index on (lines 267 to 415)
DrawFromIndex(self, value, midpoint_values, arrow_index) ==
    DrawArrow(self, value,
              DegreeRange(self.n_segments, Int2R(self.start_angle), Int2R(self.end_angle)),
              EdgeValues(self), arrow_index, midpoint_values[arrow_index + 1])

\* Speedometer.draw from the value positions on (lines 267 to 415)
DrawFromValues(self, value, midpoint_values) ==
    DrawFromIndex(self, value, midpoint_values, ArrowIndex(midpoint_values, value))

\* Speedometer.draw(value) from the value positions on: the exception
\* raised, or what is put on the axes
SpeedometerDraw(self, value) ==
    IF self.n_segments = 0
    THEN DrawRaised("ValueError", "attempt to get argmin of an empty sequence")
    ELSE DrawFromValues(self, value, MidpointValues(self))

\* no Speedometer call has been made
NoCall == [call |-> "none", args |-> None, raised |-> None, returned |-> None, drawn |-> None]

(***************************************************************************)
(* The state.                                                              *)
(*   warned    the module-level latch _WARNED_UNSUPPORTED_BBOX             *)
(*   log       one entry per CurvedText construction of the process: the   *)
(*             unsupported keys among its text_kwargs and whether it       *)
(*             emitted the warning                                         *)
(*   label     None before the first construction, else the fields of the  *)
(*             CurvedText built last                                       *)
(*   view, dpi the host's axes.transData and figure.dpi                    *)
(*   op        the operation performed last, its text argument and, for    *)
(*             set_text, whether the argument was the text already held;   *)
(*             raised tells whether it ended with an exception             *)
(*   calls     the _layout_line calls made by the operation performed last *)
(*             (none unless it is a draw)                                  *)
(*   rendered  the characters that operation handed to artist.draw         *)
(*   speedo    None, or the attributes of the Speedometer constructed last *)
(*   figures   one entry per figure opened with plt.subplots, by the       *)
(*             caller or by Speedometer.draw: the number of Speedometer    *)
(*             draws completed on its axes                                 *)
(*   result    the Speedometer call made last: its arguments, the          *)
(*             exception it raised or None, what it returned and, for a    *)
(*             draw, what it put on the axes                               *)
(***************************************************************************)
VARIABLES warned, log, label, view, dpi, op, calls, rendered, speedo, figures, result

textVars == <<warned, log, label, view, dpi, op, calls, rendered>>
gaugeVars == <<speedo, figures, result>>
vars == <<warned, log, label, view, dpi, op, calls, rendered, speedo, figures, result>>

\* "" if text is None else str(text)
StrOf(arg) == IF IsNone(arg) THEN <<>> ELSE arg[1]

\* the module as imported, before any construction, under the host's view
Init ==
    /\ warned = FALSE
    /\ log = <<>>
    /\ label = None
    /\ view = [k |-> 20, sy |-> 1, tx |-> 0, ty |-> 0]
    /\ dpi = 72
    /\ op = [name |-> "import", arg |-> None, same |-> FALSE, raised |-> FALSE]
    /\ calls = <<>>
    /\ rendered = <<>>
    /\ speedo = None
    /\ figures = <<>>
    /\ result = NoCall

\* "bbox" in text_kwargs or "backgroundcolor" in text_kwargs
Unsupported(keys) == "bbox" \in keys \/ "backgroundcolor" \in keys

\* LatchAfter without the assignment of True to the latch
LatchNeverSet(latch, keys) == latch

\* the latch after __init__ with these unsupported keys
LatchAfter(latch, keys) == IF Unsupported(keys) /\ ~latch THEN TRUE ELSE latch

\* whether __init__ calls warnings.warn
WarnsNow(latch, keys) == Unsupported(keys) /\ ~latch

\* CurvedText.__init__: the parameters are drawn from the profile P
Construct(P) ==
    /\ Len(log) < P.ctors
    /\ \E arg \in P.textArgs, radius \in P.radiuses, theta \in P.thetas,
          align \in P.aligns, direction \in P.directions, radii \in P.radii,
          line_spacing \in P.lineSpacings, letter_spacing \in P.letterSpacings,
          linespacing \in P.linespacings, font \in P.fonts, keys \in P.keys :
          /\ warned' = LatchAfter(warned, keys)
          /\ log' = Append(log, [keys |-> keys, warning |-> WarnsNow(warned, keys)])
          /\ label' = << [text |-> StrOf(arg),
                          center |-> <<Zero, Zero>>,
                          radius |-> radius,
                          theta |-> theta,
                          align |-> align,
                          direction |-> direction,
                          radii |-> radii,
                          line_spacing |-> line_spacing,
                          letter_spacing |-> letter_spacing,
                          linespacing |-> linespacing,
                          font |-> font,
                          visible |-> TRUE,
                          axes |-> <<"ax">>,
                          figure |-> <<"fig">>,
                          rebuilds |-> 1,
                          lines |-> Rebuild(<<>>, StrOf(arg), 1)] >>
          /\ op' = [name |-> "init", arg |-> arg, same |-> FALSE, raised |-> FALSE]
    /\ calls' = <<>>
    /\ rendered' = <<>>
    /\ UNCHANGED <<view, dpi>>
    /\ UNCHANGED gaugeVars

\* CurvedText.set_text
SetText(P) ==
    /\ ~IsNone(label)
    /\ label[1].rebuilds < P.rebuilds
    /\ \E arg \in P.textArgs :
          /\ label' = << [label[1] EXCEPT !.text = StrOf(arg),
                                          !.rebuilds = @ + 1,
                                          !.lines = Rebuild(label[1].lines, StrOf(arg),
                                                            label[1].rebuilds + 1)] >>
          /\ op' = [name |-> "set_text", arg |-> arg,
                    same |-> StrOf(arg) = label[1].text, raised |-> FALSE]
    /\ calls' = <<>>
    /\ rendered' = <<>>
    /\ UNCHANGED <<warned, log, view, dpi>>
    /\ UNCHANGED gaugeVars

\* CurvedText.draw, as called by the host's render pass
DrawLeaves(r) ==
    /\ label' = << [label[1] EXCEPT !.lines = r.lines] >>
    /\ calls' = r.calls
    /\ rendered' = r.rendered
    /\ op' = [name |-> "draw", arg |-> None, same |-> FALSE, raised |-> r.raised]

Draw ==
    /\ ~IsNone(label)
    /\ DrawLeaves(DrawResult(label[1], view, dpi))
    /\ UNCHANGED <<warned, log, view, dpi>>
    /\ UNCHANGED gaugeVars

\* the host changes the view (zoom, pan, axis inversion) or the resolution
ViewChange(P) ==
    /\ \E v \in P.views, d \in P.dpis :
          /\ <<v, d>> # <<view, dpi>>
          /\ view' = v
          /\ dpi' = d
    /\ op' = [name |-> "view", arg |-> None, same |-> FALSE, raised |-> FALSE]
    /\ calls' = <<>>
    /\ rendered' = <<>>
    /\ UNCHANGED <<warned, log, label>>
    /\ UNCHANGED gaugeVars

\* Artist.set_visible(b) on the label, by the caller
SetVisible ==
    /\ ~IsNone(label)
    /\ \E b \in BOOLEAN :
          /\ label' = << [label[1] EXCEPT !.visible = b] >>
          /\ op' = [name |-> "set_visible", arg |-> <<b>>, same |-> b = label[1].visible,
                    raised |-> FALSE]
    /\ calls' = <<>>
    /\ rendered' = <<>>
    /\ UNCHANGED <<warned, log, view, dpi>>
    /\ UNCHANGED gaugeVars

\* the label loses its axes, its figure or both (Artist.remove() unsets
\* both; either attribute can be set to None by the caller)
Detach ==
    /\ ~IsNone(label)
    /\ \E unset \in {{"axes"}, {"figure"}, {"axes", "figure"}} :
          label' = << [label[1] EXCEPT
                          !.axes = IF "axes" \in unset THEN None ELSE @,
                          !.figure = IF "figure" \in unset THEN None ELSE @] >>
    /\ op' = [name |-> "detach", arg |-> None, same |-> FALSE, raised |-> FALSE]
    /\ calls' = <<>>
    /\ rendered' = <<>>
    /\ UNCHANGED <<warned, log, view, dpi>>
    /\ UNCHANGED gaugeVars

\* speedo = Speedometer(...): the arguments are drawn from the profile G;
\* when the constructor raises, no object is bound
ConstructSpeedometer(G) ==
    /\ \E start_value \in G.startValues, end_value \in G.endValues,
          radius \in G.radiuses, colors \in G.colors,
          segments_per_color \in G.segmentsPerColor, angles \in G.angles,
          snap_to_pos \in G.snapToPos :
          LET a == [start_value |-> start_value, end_value |-> end_value,
                    radius |-> radius, colors |-> colors,
                    segments_per_color |-> segments_per_color,
                    start_angle |-> angles[1], end_angle |-> angles[2],
                    snap_to_pos |-> snap_to_pos]
              r == SpeedometerInit(a)
          IN  /\ speedo' = r.self
              /\ result' = [call |-> "Speedometer", args |-> <<a>>, raised |-> r.raised,
                            returned |-> None, drawn |-> None]
    /\ UNCHANGED figures
    /\ UNCHANGED textVars

\* fig, ax = plt.subplots() by the caller, as the tests do before draw(ax=ax)
Subplots(G) ==
    /\ Len(figures) < G.figures
    /\ figures' = Append(figures, [draws |-> 0])
    /\ result' = [call |-> "subplots", args |-> None, raised |-> None,
                  returned |-> <<[fig |-> Len(figures) + 1, ax |-> Len(figures) + 1]>>,
                  drawn |-> None]
    /\ UNCHANGED speedo
    /\ UNCHANGED textVars

\* the axes draw works on: a new figure's when ax is None (0), else the
\* axes supplied, named by its figure
AxesOf(ax, figs) == IF ax = 0 THEN Len(figs) + 1 ELSE ax

\* ReturnFigAx without the test of ax
ReturnFigAxAlways(ax) == TRUE

\* return_fig_ax = ax is None
ReturnFigAx(ax) == ax = 0

\* the figures after plt.subplots() when ax is None
FiguresOpened(ax, figs) == IF ax = 0 THEN Append(figs, [draws |-> 0]) ELSE figs

\* speedo.draw(value, ax): value and ax are drawn from the profile G and
\* from the axes that exist
DrawSpeedometer(G) ==
    /\ ~IsNone(speedo)
    /\ \E value \in G.values :
          \E r \in {SpeedometerDraw(speedo[1], value)}, ax \in 0..Len(figures) :
             /\ ax = 0 => Len(figures) < G.figures
             /\ ax # 0 => figures[ax].draws < G.draws
             /\ \E on \in {AxesOf(ax, figures)} :
                 /\ figures' = IF IsNone(r.raised)
                               THEN [FiguresOpened(ax, figures) EXCEPT ![on].draws = @ + 1]
                               ELSE FiguresOpened(ax, figures)
                 /\ result' = [call |-> "draw",
                               args |-> <<[value |-> value, ax |-> ax]>>,
                               raised |-> r.raised,
                               returned |-> IF IsNone(r.raised) /\ ReturnFigAx(ax)
                                            THEN <<[fig |-> on, ax |-> on]>>
                                            ELSE None,
                               drawn |-> IF IsNone(r.raised)
                                         THEN <<r.drawn[1] @@ [on |-> on]>>
                                         ELSE None]
    /\ UNCHANGED speedo
    /\ UNCHANGED textVars

(***************************************************************************)
(* Input profiles: the sets the parameters of the operations range over.   *)
(***************************************************************************)
TextArgs(texts) == {None} \cup {<<t>> : t \in texts}

DefaultView == [k |-> 20, sy |-> 1, tx |-> 0, ty |-> 0]
ZoomedView == [k |-> 40, sy |-> 1, tx |-> 5, ty |-> 3]

\* the life cycle of one label: every text up to MaxLen
\* the default of the text keyword linespacing: 1.2
DefaultLinespacing == Rat(12, 10)

MainProfile ==
    [ctors |-> 1,
     rebuilds |-> MaxRebuilds,
     textArgs |-> TextArgs(StringsUpTo(Alphabet, MaxLen)),
     radiuses |-> {Int2R(1)},
     thetas |-> {Zero},
     aligns |-> {"center"},
     directions |-> {"auto"},
     radii |-> {"outward"},
     lineSpacings |-> {None},
     linespacings |-> {DefaultLinespacing},
     letterSpacings |-> {Zero},
     fonts |-> {Proportional},
     keys |-> {{}},
     views |-> {DefaultView},
     dpis |-> {72}]

Next ==
    \/ Construct(MainProfile)
    \/ SetText(MainProfile)
    \/ Draw

Spec == Init /\ [][Next]_vars

(***************************************************************************)
(* SpecWarnings: up to MaxCtor constructions in one process, with every    *)
(* combination of the unsupported keys.                                    *)
(***************************************************************************)
WarnProfile ==
    [MainProfile EXCEPT !.ctors = MaxCtor,
                        !.textArgs = {<< <<"A">> >>},
                        !.keys = SUBSET {"bbox", "backgroundcolor"}]

NextWarnings ==
    \/ Construct(WarnProfile)
    \/ Draw

SpecWarnings == Init /\ [][NextWarnings]_vars

(***************************************************************************)
(* SpecDirection: one label per direction and anchor angle; the anchor     *)
(* angles are the multiples of pi/4 over -MaxTurns .. MaxTurns+1 turns,    *)
(* each also moved by Delta to either side.                                *)
(***************************************************************************)
Delta == Rat(1, 100)

DirectionThetas ==
    {RAdd(RMul(Int2R(q), Rat(22, 28)), RMul(Int2R(e), Delta)) :
        q \in (-8 * MaxTurns)..(8 * (MaxTurns + 1)), e \in {-1, 0, 1}}

DirectionProfile ==
    [MainProfile EXCEPT !.textArgs = {<< <<"A">> >>},
                        !.thetas = DirectionThetas,
                        !.directions = {"auto", "clockwise", "counterclockwise"}]

NextDirection ==
    \/ Construct(DirectionProfile)
    \/ Draw

SpecDirection == Init /\ [][NextDirection]_vars

(***************************************************************************)
(* SpecLayout: single-line labels of up to MaxLineLen characters, for      *)
(* every alignment, 'auto' and 'clockwise', anchors at the top and in the  *)
(* lower half of the ring, and negative, zero and positive letter spacing. *)
(***************************************************************************)
LayoutThetas ==
    {Zero, RAdd(HalfPi, Rat(1, 10)), Pi, RSub(ThreeHalfPi, Rat(1, 10))}

LayoutProfile ==
    [MainProfile EXCEPT !.textArgs = {<<t>> : t \in StringsUpTo({"A", "B", " "}, MaxLineLen)},
                        !.radiuses = {Int2R(1), Int2R(2)},
                        !.thetas = LayoutThetas,
                        !.aligns = {"start", "center", "end"},
                        !.directions = {"auto", "clockwise"},
                        !.letterSpacings = {Int2R(-4), Zero, Int2R(2)}]

NextLayout ==
    \/ Construct(LayoutProfile)
    \/ Draw

SpecLayout == Init /\ [][NextLayout]_vars

(***************************************************************************)
(* SpecStack: labels of up to MaxLines one-glyph lines ("A" is a short     *)
(* glyph, "B" a tall one with a descender), both stacking modes, anchors   *)
(* at the top and at the bottom, default and explicit line spacings, under *)
(* the default, a zoomed and a y-inverted view.                            *)
(***************************************************************************)
InvertedView == [k |-> 20, sy |-> -1, tx |-> 0, ty |-> 0]

\* "\n".join(lines)
RECURSIVE JoinLines(_)
JoinLines(lines) ==
    IF Len(lines) = 0 THEN <<>>
    ELSE IF Len(lines) = 1 THEN Head(lines)
    ELSE Head(lines) \o <<"\n">> \o JoinLines(Tail(lines))

StackTexts ==
    {JoinLines(ls) : ls \in UNION {[1..m -> {<<"A">>, <<"B">>}] : m \in 1..MaxLines}}

StackProfile ==
    [MainProfile EXCEPT !.textArgs = {<<t>> : t \in StackTexts},
                        !.thetas = {Zero, Pi},
                        !.directions = {"auto", "clockwise"},
                        !.radii = {"outward", "center"},
                        !.lineSpacings = {None, <<Zero>>, <<Int2R(1)>>, <<Int2R(3)>>,
                                          <<Int2R(-3)>>},
                        !.views = {DefaultView, ZoomedView, InvertedView}]

NextStack ==
    \/ Construct(StackProfile)
    \/ ViewChange(StackProfile)
    \/ Draw

SpecStack == Init /\ [][NextStack]_vars

(***************************************************************************)
(* SpecDegenerate: labels of up to MaxLines one-glyph lines on declared    *)
(* radii that are positive, zero, negative, or equal to a line's baseline  *)
(* correction (so that the line's baseline radius is 0), anchored at the   *)
(* top, at the bottom or at a NaN angle, with the default or a NaN line    *)
(* spacing, under the default, a zoomed, a y-inverted and a collapsed      *)
(* (k = 0) view.                                                           *)
(***************************************************************************)
CollapsedView == [k |-> 0, sy |-> 1, tx |-> 0, ty |-> 0]

DegenerateProfile ==
    [MainProfile EXCEPT !.textArgs = {<<t>> : t \in StackTexts},
                        !.radiuses = {Int2R(1), Rat(1, 4), Zero, Rat(-1, 4), Int2R(-1)},
                        !.thetas = {Zero, Pi, NaN},
                        !.lineSpacings = {None, <<NaN>>},
                        !.views = {DefaultView, ZoomedView, InvertedView, CollapsedView}]

NextDegenerate ==
    \/ Construct(DegenerateProfile)
    \/ ViewChange(DegenerateProfile)
    \/ Draw

SpecDegenerate == Init /\ [][NextDegenerate]_vars

(***************************************************************************)
(* SpecFields: the life cycle of a one- or two-line label (construction,   *)
(* set_text, view changes, draws) on a regular declared radius and on one  *)
(* that gives the last line the baseline radius 0 under the default view.  *)
(***************************************************************************)
FieldsProfile ==
    [MainProfile EXCEPT !.textArgs = {<< <<"B">> >>, << <<"A", "\n", "B">> >>},
                        !.radiuses = {Int2R(1), Rat(1, 4)},
                        !.views = {DefaultView, ZoomedView, CollapsedView}]

NextFields ==
    \/ Construct(FieldsProfile)
    \/ SetText(FieldsProfile)
    \/ ViewChange(FieldsProfile)
    \/ Draw

SpecFields == Init /\ [][NextFields]_vars

(***************************************************************************)
(* SpecReading: labels of 2 .. MaxLines lines anchored at every multiple   *)
(* of pi/4 from -pi/2 to 2*pi, in both stacking modes, with the default, a *)
(* zero and a negative line spacing, under the default, the zoomed and the *)
(* y-inverted view.                                                        *)
(***************************************************************************)
ReadingTexts ==
    {JoinLines([i \in 1..m |-> <<"A">>]) : m \in 2..MaxLines} \cup {<<"B", "\n", "A">>}

ReadingThetas == {RMul(Int2R(q), Rat(22, 28)) : q \in -2..8}

ReadingProfile ==
    [MainProfile EXCEPT !.textArgs = {<<t>> : t \in ReadingTexts},
                        !.thetas = ReadingThetas,
                        !.radii = {"outward", "center"},
                        !.lineSpacings = {None, <<Zero>>, <<Int2R(-3)>>},
                        !.views = {DefaultView, ZoomedView, InvertedView}]

NextReading ==
    \/ Construct(ReadingProfile)
    \/ ViewChange(ReadingProfile)
    \/ Draw

SpecReading == Init /\ [][NextReading]_vars

(***************************************************************************)
(* SpecHidden: a label of one or two glyphs that the caller hides, shows   *)
(* and detaches from its axes or figure between draws, under the default   *)
(* and the zoomed view.                                                    *)
(***************************************************************************)
HiddenProfile ==
    [MainProfile EXCEPT !.textArgs = {<< <<"A">> >>, << <<"A", "B">> >>},
                        !.views = {DefaultView, ZoomedView}]

NextHidden ==
    \/ Construct(HiddenProfile)
    \/ SetVisible
    \/ Detach
    \/ ViewChange(HiddenProfile)
    \/ Draw

SpecHidden == Init /\ [][NextHidden]_vars

(***************************************************************************)
(* SpecSpacing: labels of 2 .. MaxLines lines in both stacking modes, with *)
(* the default, a zero and a positive explicit line spacing, the default   *)
(* and a double linespacing multiplier, at 72 and 144 dpi, under the       *)
(* default, the zoomed and the y-inverted view.                            *)
(***************************************************************************)
SpacingProfile ==
    [MainProfile EXCEPT !.textArgs = {<<t>> : t \in ReadingTexts},
                        !.thetas = {Zero, Pi},
                        !.radii = {"outward", "center"},
                        !.lineSpacings = {None, <<Zero>>, <<Int2R(3)>>},
                        !.linespacings = {DefaultLinespacing, Int2R(2)},
                        !.views = {DefaultView, ZoomedView, InvertedView},
                        !.dpis = {72, 144}]

NextSpacing ==
    \/ Construct(SpacingProfile)
    \/ ViewChange(SpacingProfile)
    \/ Draw

SpecSpacing == Init /\ [][NextSpacing]_vars

(***************************************************************************)
(* SpecSpeedometerInit: Speedometer constructions over ranges that are     *)
(* valid, empty and reversed, radiuses that are positive, zero and         *)
(* negative, colours that are defaulted, empty and given, and segment      *)
(* counts per colour from -1 up.                                           *)
(***************************************************************************)
DefaultAngles == <<DefaultStartAngle, DefaultEndAngle>>

InitProfile ==
    [startValues |-> {Zero, Int2R(5), Int2R(10)},
     endValues |-> {Int2R(5), Int2R(10)},
     radiuses |-> {Int2R(-1), Zero, Rat(1, 2), Int2R(4)},
     colors |-> {None, <<<<>>>>, <<<<"#ff0000">>>>, <<<<"#ff0000", "#00ff00", "#0000ff">>>>},
     segmentsPerColor |-> {-1, 0, 1, DefaultSegmentsPerColor},
     angles |-> {DefaultAngles},
     snapToPos |-> BOOLEAN,
     values |-> {},
     figures |-> 0,
     draws |-> 0]

NextSpeedometerInit == ConstructSpeedometer(InitProfile)

SpecSpeedometerInit == Init /\ [][NextSpeedometerInit]_vars

(***************************************************************************)
(* SpecSpeedometer: Speedometers over the range 0..10 with the default     *)
(* colours of 0, 1 or 2 segments each, snapping or not, drawn with values  *)
(* below, at, between and above the bounds on new figures and on axes the  *)
(* caller supplies.                                                        *)
(***************************************************************************)
GaugeProfile ==
    [startValues |-> {Zero},
     endValues |-> {Int2R(10)},
     radiuses |-> {Int2R(4)},
     colors |-> {None},
     segmentsPerColor |-> {0, 1, 2},
     angles |-> {DefaultAngles},
     snapToPos |-> BOOLEAN,
     values |-> {Int2R(-5), Zero, Rat(17, 2), Int2R(10), Int2R(15)},
     figures |-> MaxFigures,
     draws |-> MaxDraws]

NextSpeedometer ==
    \/ ConstructSpeedometer(GaugeProfile)
    \/ Subplots(GaugeProfile)
    \/ DrawSpeedometer(GaugeProfile)

SpecSpeedometer == Init /\ [][NextSpeedometer]_vars

(***************************************************************************)
(* SpecTicks: Speedometers over 0..10 and 5..10 with the five default      *)
(* colours or three given ones, of 1 or 2 segments each, on the default    *)
(* arc and on the half circle 0..180, snapping or not, drawn with the      *)
(* bounds and with inner tick values, on a new figure and then on its axes.*)
(***************************************************************************)
HalfCircle == <<0, 180>>

TickProfile ==
    [startValues |-> {Zero, Int2R(5)},
     endValues |-> {Int2R(10)},
     radiuses |-> {Int2R(4)},
     colors |-> {None, <<<<"#ff0000", "#00ff00", "#0000ff">>>>},
     segmentsPerColor |-> {1, 2},
     angles |-> {DefaultAngles, HalfCircle},
     snapToPos |-> BOOLEAN,
     values |-> {Zero, Int2R(5), Int2R(6), Rat(20, 3), Int2R(10)},
     figures |-> 1,
     draws |-> 2]

NextTicks ==
    \/ ConstructSpeedometer(TickProfile)
    \/ DrawSpeedometer(TickProfile)

SpecTicks == Init /\ [][NextTicks]_vars

(***************************************************************************)
(* Properties.                                                             *)
(***************************************************************************)
TheLabel == label[1]

\* the characters of a sequence of glyphs
CharsOfGlyphs(glyphs) == [i \in 1..Len(glyphs) |-> glyphs[i].char]

NotSpace(ch) == ch \notin {" ", "\n"}

\* C1: after construction and after any sequence of set_text calls, every
\* line holds exactly (character count minus whitespace count) glyphs, never
\* more than its characters, and get_children() returns one glyph per
\* non-whitespace character of the current text, in text order.
C1_GlyphsMatchText ==
    ~IsNone(label) =>
        /\ \A i \in 1..Len(TheLabel.lines) :
              LET line == TheLabel.lines[i]
                  spaces == Cardinality({j \in 1..Len(line.chars) : ~NotSpace(line.chars[j])})
              IN  /\ Len(line.artists) = Len(line.chars)
                  /\ Len(GlyphsOf(line.artists)) = Len(line.chars) - spaces
                  /\ Len(GlyphsOf(line.artists)) <= Len(line.chars)
        /\ CharsOfGlyphs(GetChildren(TheLabel.lines)) = SelectSeq(TheLabel.text, NotSpace)

\* C1 witness: set_text has replaced the text by one with a space, a line
\* break and two different visible characters
C1_Witness ==
    /\ ~IsNone(label)
    /\ op.name = "set_text"
    /\ TheLabel.text = <<"B", "\n", "A">>
    /\ CharsOfGlyphs(GetChildren(TheLabel.lines)) = <<"B", "A">>

\* whether theta lies strictly between pi/2 and 3*pi/2 in some turn
InLowerHalf(theta) ==
    \E m \in (-(MaxTurns + 2))..(MaxTurns + 2) :
        /\ RLt(RAdd(HalfPi, RMul(Int2R(m), TwoPi)), theta)
        /\ RLt(theta, RAdd(ThreeHalfPi, RMul(Int2R(m), TwoPi)))

\* C2: 'clockwise' yields +1 and 'counterclockwise' -1 whatever theta is;
\* 'auto' yields -1 exactly when pi/2 < theta mod 2*pi < 3*pi/2 and +1
\* otherwise, also at pi/2 and 3*pi/2, for negative theta and beyond 2*pi;
\* pi/2 - delta gives +1 and pi/2 + delta gives -1.
C2_DirectionResolution ==
    (op.name = "draw") =>
        \A i \in 1..Len(calls) :
            LET sign == calls[i].direction_sign
                theta == TheLabel.theta
            IN  /\ TheLabel.direction = "clockwise" => sign = 1
                /\ TheLabel.direction = "counterclockwise" => sign = -1
                /\ TheLabel.direction = "auto" =>
                      /\ sign = -1 <=> InLowerHalf(theta)
                      /\ sign = 1 <=> ~InLowerHalf(theta)
                      /\ theta \in {HalfPi, ThreeHalfPi} => sign = 1
                      /\ theta = RSub(HalfPi, Delta) => sign = 1
                      /\ theta = RAdd(HalfPi, Delta) => sign = -1

\* C2 witness: a drawn 'auto' label anchored at a negative angle of the
\* lower half, laid out with sign -1
C2_Witness ==
    /\ op.name = "draw"
    /\ TheLabel.direction = "auto"
    /\ RLt(TheLabel.theta, Zero)
    /\ Len(calls) = 1
    /\ calls[1].direction_sign = -1

\* C8: empty text (and text None) yields exactly one empty line and no
\* glyph, and a draw of it lays out and draws no glyph.
C8_EmptyText ==
    /\ (op.name \in {"init", "set_text"} /\ (IsNone(op.arg) \/ op.arg = << <<>> >>))
          => TheLabel.text = <<>>
    /\ (~IsNone(label) /\ TheLabel.text = <<>>) =>
          /\ TheLabel.lines = << [text |-> <<>>, chars |-> <<>>, artists |-> <<>>] >>
          /\ GetChildren(TheLabel.lines) = <<>>
          /\ op.name = "draw" =>
                /\ rendered = <<>>
                /\ \A i \in 1..Len(calls) :
                      IsNone(calls[i].radius_px) /\ calls[i].thetas = <<>>

\* C8 witness: a label whose text is empty has been drawn
C8_Witness ==
    /\ ~IsNone(label)
    /\ TheLabel.text = <<>>
    /\ op.name = "draw"
    /\ Len(calls) = 1

\* per line, the characters of its glyphs
Shape(lines) == [i \in 1..Len(lines) |-> CharsOfGlyphs(GlyphsOf(lines[i].artists))]

\* C9: set_text with the text already held leaves the number of lines, the
\* number of glyphs of each line and the characters of the glyphs as they
\* were: nothing of the previous build accumulates.
C9_RebuildIdempotent ==
    [][(~IsNone(label) /\ op'.name = "set_text" /\ label'[1].text = label[1].text)
          => /\ Len(label'[1].lines) = Len(label[1].lines)
             /\ Shape(label'[1].lines) = Shape(label[1].lines)]_vars

\* C9 witness: set_text was called with the text already held, a text of
\* two lines with glyphs
C9_Witness ==
    /\ op.name = "set_text"
    /\ op.same
    /\ Shape(TheLabel.lines) = << <<"A">>, <<"B">> >>

HasUnsupported(keys) == keys \cap {"bbox", "backgroundcolor"} # {}

\* C10: across the constructions of one process the warning is emitted by
\* the first construction that supplies 'bbox' or 'backgroundcolor' and by
\* no other, hence at most once; a construction that supplies neither does
\* not emit it and leaves the latch as it was.
C10_WarnOnce ==
    /\ \A i \in 1..Len(log) :
          log[i].warning <=>
              /\ HasUnsupported(log[i].keys)
              /\ \A j \in 1..(i - 1) : ~HasUnsupported(log[j].keys)
    /\ Cardinality({i \in 1..Len(log) : log[i].warning}) <= 1
    /\ warned <=> \E i \in 1..Len(log) : HasUnsupported(log[i].keys)

\* C10 witness: a construction without the keys, then one with 'bbox' that
\* warned, then one with 'backgroundcolor' that did not
C10_Witness ==
    /\ Len(log) = 3
    /\ log[1].keys = {} /\ ~log[1].warning
    /\ log[2].keys = {"bbox"} /\ log[2].warning
    /\ log[3].keys = {"backgroundcolor"} /\ ~log[3].warning

\* the glyphs of the label that a draw has placed, in text order
PlacedGlyphs == SelectSeq(GetChildren(TheLabel.lines), LAMBDA g : ~IsNone(g.position))

\* a rotation normalized to [-180, 180): ((rot + 180) % 360) - 180
Normalized(rot) == RSub(RMod(RAdd(rot, Int2R(180)), Int2R(360)), Int2R(180))

\* the glyphs read left to right and none is upside-down
ReadsLeftToRight(glyphs) ==
    /\ \A i \in 1..(Len(glyphs) - 1) :
          RLe(glyphs[i].position[1][1], glyphs[i + 1].position[1][1])
    /\ \A i \in 1..Len(glyphs) :
          /\ RLe(Int2R(-90), Normalized(glyphs[i].rotation[1]))
          /\ RLe(Normalized(glyphs[i].rotation[1]), Int2R(90))

\* a drawn single-line label anchored in the lower half with 'auto' and 'start'
BottomStartDrawn ==
    /\ op.name = "draw"
    /\ TheLabel.direction = "auto"
    /\ TheLabel.align = "start"
    /\ InLowerHalf(TheLabel.theta)

\* the advance of a character of the label in pixels, as the host measures it
AdvPx(ch) == RMul(Int2R(TheLabel.font.adv[ch]), Rat(dpi, 72))
LetterSpacingPx == RMul(TheLabel.letter_spacing, Rat(dpi, 72))

\* the angular extent of call c's line: (advances + spacings) / radius_px
Extent(c) ==
    LET chars == TheLabel.lines[c.line_idx + 1].chars
    IN  RDiv(RAdd(RSum([i \in 1..Len(chars) |-> AdvPx(chars[i])]),
                  RMul(LetterSpacingPx, Int2R(IMax(Len(chars) - 1, 0)))),
             c.radius_px[1])

\* C3 as claimed: for every label anchored in the lower half with 'auto' and
\* 'start', whatever the text length and radius, the glyph x-coordinates are
\* non-decreasing in character order and every normalized rotation lies in
\* [-90, 90].
C3_Claimed == BottomStartDrawn => ReadsLeftToRight(PlacedGlyphs)

\* C3 as amended: the same, for a label with a positive baseline radius and
\* a non-negative letter spacing whose line does not extend past pi/2, that
\* is whose angular extent is at most (theta mod 2*pi) - pi/2.
C3_BottomReadsLeftToRight ==
    (/\ BottomStartDrawn
     /\ RLe(Zero, TheLabel.letter_spacing)
     /\ \A i \in 1..Len(calls) :
           /\ RLt(Zero, calls[i].radius_data)
           /\ ~IsNone(calls[i].radius_px) =>
                 RLe(Extent(calls[i]), RSub(RMod(TheLabel.theta, TwoPi), HalfPi)))
        => ReadsLeftToRight(PlacedGlyphs)

\* C3 witness: a label of three glyphs anchored at pi with 'auto' and 'start'
\* has been drawn and its glyphs have strictly increasing x
C3_Witness ==
    /\ BottomStartDrawn
    /\ TheLabel.theta = Pi
    /\ Len(PlacedGlyphs) = 3
    /\ RLe(Extent(calls[1]), RSub(Pi, HalfPi))
    /\ \A i \in 1..2 :
          RLt(PlacedGlyphs[i].position[1][1], PlacedGlyphs[i + 1].position[1][1])

\* the characters of the line that call c laid out
CharsOfCall(c) == TheLabel.lines[c.line_idx + 1].chars

\* the (1-based) indices of the characters of call c's line that are glyphs
GlyphIndices(c) ==
    {i \in 1..Len(c.thetas) : ~IsNone(TheLabel.lines[c.line_idx + 1].artists[i])}

\* the angular centers of the glyphs among indices i < j advance strictly in
\* the direction of call c
StrictlyAhead(c, i, j) ==
    IF c.direction_sign = 1 THEN RLt(c.thetas[i], c.thetas[j])
    ELSE RLt(c.thetas[j], c.thetas[i])

\* the distance in pixels between the centers of characters i and i + 1 of
\* call c's line: adv_i / 2 + letter_spacing + adv_(i+1) / 2
CenterGapPx(c, i) ==
    RAdd(RAdd(RDiv(AdvPx(CharsOfCall(c)[i]), Int2R(2)), LetterSpacingPx),
         RDiv(AdvPx(CharsOfCall(c)[i + 1]), Int2R(2)))

\* C5 as claimed: within every laid-out line, for every text, every
\* letter_spacing and every set of advances, the angular centers of successive
\* glyphs are strictly increasing in character order when the direction sign
\* is +1 and strictly decreasing when it is -1.
C5_Claimed ==
    op.name = "draw" =>
        \A n \in 1..Len(calls) :
            \A i, j \in GlyphIndices(calls[n]) :
                i < j => StrictlyAhead(calls[n], i, j)

\* C5 as amended: the same, within every laid-out line in which each pair of
\* adjacent characters has adv_i / 2 + letter_spacing + adv_(i+1) / 2 > 0
\* (in particular whenever letter_spacing >= 0).
C5_StrictlyMonotonic ==
    op.name = "draw" =>
        \A n \in 1..Len(calls) :
            (\A i \in 1..(Len(calls[n].thetas) - 1) : RLt(Zero, CenterGapPx(calls[n], i)))
                => \A i, j \in GlyphIndices(calls[n]) :
                       i < j => StrictlyAhead(calls[n], i, j)

\* C5 witness: a drawn line of three glyphs under a negative letter spacing and
\* direction sign -1 whose glyph centers strictly decrease
C5_Witness ==
    /\ op.name = "draw"
    /\ Len(calls) = 1
    /\ calls[1].direction_sign = -1
    /\ RLt(TheLabel.letter_spacing, Zero)
    /\ GlyphIndices(calls[1]) = 1..3
    /\ \A i \in 1..2 : RLt(Zero, CenterGapPx(calls[1], i))
    /\ RLt(calls[1].thetas[2], calls[1].thetas[1])
    /\ RLt(calls[1].thetas[3], calls[1].thetas[2])

\* a drawn single-line label with alignment 'center' whose line was laid out
CenterLineDrawn ==
    /\ op.name = "draw"
    /\ TheLabel.align = "center"
    /\ Len(calls) = 1
    /\ Len(calls[1].thetas) > 0

\* the angular offset of glyph number k (1-based, among the glyphs) of call
\* c's line from the anchor angle
GlyphOffset(c, k) ==
    LET glyphs == SelectSeq([i \in 1..Len(c.thetas) |->
                                 [theta |-> c.thetas[i],
                                  glyph |-> i \in GlyphIndices(c)]],
                            LAMBDA e : e.glyph)
    IN  RSub(glyphs[k].theta, c.start_theta)

\* the angular offset of character i of call c's line from the anchor angle
CharOffset(c, i) == RSub(c.thetas[i], c.start_theta)

\* half the angle that character i of call c's line spans, signed with the
\* direction
HalfSpan(c, i) ==
    RSigned(c.direction_sign,
            RDiv(AdvPx(CharsOfCall(c)[i]), RMul(Int2R(2), c.radius_px[1])))

\* the advances of the characters of call c's line read the same backwards
PalindromicAdvances(c) ==
    \A i \in 1..Len(c.thetas) :
        AdvPx(CharsOfCall(c)[i]) = AdvPx(CharsOfCall(c)[Len(c.thetas) + 1 - i])

\* C7 as claimed: for a single-line label with alignment 'center' the glyph
\* angular centers are symmetric about the anchor angle: the i-th glyph center
\* from the start and the i-th from the end lie at equal and opposite angular
\* offsets from theta.
C7_Claimed ==
    CenterLineDrawn =>
        \A k \in 1..Cardinality(GlyphIndices(calls[1])) :
            GlyphOffset(calls[1], k)
                = RNeg(GlyphOffset(calls[1],
                                   Cardinality(GlyphIndices(calls[1])) + 1 - k))

\* C7 as amended: for a single-line label with alignment 'center' the extent
\* of the line is symmetric about the anchor angle (the leading edge of the
\* first character and the trailing edge of the last lie at equal and opposite
\* offsets from theta), and the centers of the i-th character from the start
\* and the i-th from the end lie at equal and opposite offsets whenever the
\* character advances read the same backwards.
C7_CenterSymmetric ==
    CenterLineDrawn =>
        /\ RSub(CharOffset(calls[1], 1), HalfSpan(calls[1], 1))
             = RNeg(RAdd(CharOffset(calls[1], Len(calls[1].thetas)),
                         HalfSpan(calls[1], Len(calls[1].thetas))))
        /\ PalindromicAdvances(calls[1]) =>
              \A i \in 1..Len(calls[1].thetas) :
                  CharOffset(calls[1], i)
                      = RNeg(CharOffset(calls[1], Len(calls[1].thetas) + 1 - i))

\* C7 witness: the label "ABA", centered on theta = 0 with 'auto', has been
\* drawn: its first and last glyph lie at opposite non-zero offsets
C7_Witness ==
    /\ CenterLineDrawn
    /\ TheLabel.theta = Zero
    /\ TheLabel.direction = "auto"
    /\ calls[1].direction_sign = 1
    /\ TheLabel.text = <<"A", "B", "A">>
    /\ RLt(CharOffset(calls[1], 1), Zero)
    /\ CharOffset(calls[1], 3) = RNeg(CharOffset(calls[1], 1))

\* a drawn label of two or more lines in 'outward' stacking mode
OutwardStackDrawn ==
    /\ op.name = "draw"
    /\ TheLabel.radii = "outward"
    /\ Len(calls) >= 2

\* center_to_baseline_data of the line of call c, as draw computes it
CenterToBaselineOf(c) ==
    CenterToBaselineData(TheLabel.font, TheLabel.lines[c.line_idx + 1], dpi,
                         PxPerDataRadial(TheLabel, view))

\* |c_i - c_(i+1)|: how far the baseline corrections of the lines of calls
\* n and n + 1 differ
CorrectionGap(n) ==
    RAbs(RSub(CenterToBaselineOf(calls[n]), CenterToBaselineOf(calls[n + 1])))

\* both the line of call n and the next have glyphs
BothHaveGlyphs(n) ==
    /\ GlyphIndices(calls[n]) # {}
    /\ GlyphIndices(calls[n + 1]) # {}

\* line n is placed strictly outside line n + 1 when outward is up, strictly
\* inside it otherwise
StrictlyStacked(n) ==
    IF OutwardIsUp(TheLabel, view)
    THEN RLt(calls[n + 1].radius_data, calls[n].radius_data)
    ELSE RLt(calls[n].radius_data, calls[n + 1].radius_data)

\* C4 as claimed: with 'outward' stacking and two or more lines, the glyphs of
\* line i lie on a strictly larger radius than those of line i+1 when
\* outward_is_up is true and on a strictly smaller radius when it is false.
C4_Claimed ==
    OutwardStackDrawn =>
        \A n \in 1..(Len(calls) - 1) : BothHaveGlyphs(n) => StrictlyStacked(n)

\* C4 as amended: the same for every pair of adjacent lines whose line spacing
\* (line_spacing_data) exceeds the difference of their baseline corrections
\* |c_i - c_(i+1)|, as the default spacing of 1.2 font sizes does here.
C4_OutwardStacking ==
    OutwardStackDrawn =>
        \A n \in 1..(Len(calls) - 1) :
            (/\ BothHaveGlyphs(n)
             /\ RLt(CorrectionGap(n), LineSpacingData(TheLabel, view, dpi)))
                => StrictlyStacked(n)

\* C4 witness: the three lines "B", "A", "B" with the default spacing have been
\* drawn at the top of the ring under the default view, the first outermost
C4_Witness ==
    /\ OutwardStackDrawn
    /\ TheLabel.text = <<"B", "\n", "A", "\n", "B">>
    /\ IsNone(TheLabel.line_spacing)
    /\ TheLabel.theta = Zero
    /\ view = DefaultView
    /\ OutwardIsUp(TheLabel, view)
    /\ \A n \in 1..2 : BothHaveGlyphs(n) /\ StrictlyStacked(n)

\* the radius_data passed to _layout_line never increases, or never
\* decreases, over the lines in declared order
MonotonicRadii ==
    \/ \A n \in 1..(Len(calls) - 1) : RLe(calls[n + 1].radius_data, calls[n].radius_data)
    \/ \A n \in 1..(Len(calls) - 1) : RLe(calls[n].radius_data, calls[n + 1].radius_data)

\* C6 as claimed: in 'outward' stacking mode the radius_data passed to
\* _layout_line is monotonic in declared line order (non-increasing or
\* non-decreasing over the line index) for every line spacing and every
\* combination of per-line font metrics.
C6_Claimed == OutwardStackDrawn => MonotonicRadii

\* C6 as amended: the same for every label whose line spacing is, in absolute
\* value, at least the largest difference |c_i - c_(i+1)| between the baseline
\* corrections of adjacent lines (in particular when all lines have the same
\* metrics).
C6_MonotonicRadii ==
    (/\ OutwardStackDrawn
     /\ \A n \in 1..(Len(calls) - 1) :
           RLe(CorrectionGap(n), RAbs(LineSpacingData(TheLabel, view, dpi))))
        => MonotonicRadii

\* C6 witness: the three lines "B", "A", "B" with a line spacing of 3 points
\* have been drawn at the bottom of the ring, on radii that increase with the
\* line index although their baseline corrections differ
C6_Witness ==
    /\ OutwardStackDrawn
    /\ TheLabel.text = <<"B", "\n", "A", "\n", "B">>
    /\ TheLabel.line_spacing = <<Int2R(3)>>
    /\ TheLabel.theta = Pi
    /\ ~OutwardIsUp(TheLabel, view)
    /\ RLt(Zero, CorrectionGap(1))
    /\ \A n \in 1..2 : RLt(calls[n].radius_data, calls[n + 1].radius_data)

\* the device-pixel radius that _layout_line computes for call c under view v
RadiusPxOf(c, v) == HypotRadial(v, c.radius_data, c.start_theta)

\* that radius is non-finite or <= 0
DegenerateRadiusPx(c, v) == ~IsFinite(RadiusPxOf(c, v)) \/ RLe(RadiusPxOf(c, v), Zero)

\* every glyph among these artists has a position and a rotation
AllPlaced(artists) ==
    \A i \in 1..Len(artists) :
        ~IsNone(artists[i]) =>
            ~IsNone(artists[i][1].position) /\ ~IsNone(artists[i][1].rotation)

\* C11: in a draw pass, a line whose computed device-pixel radius is
\* non-finite or <= 0 is omitted: the draw leaves its glyphs as they were and
\* draws none of them, raises no error and emits no warning, and every other
\* line of the label with characters is still laid out and drawn.
C11_DegenerateLineSkipped ==
    [][op'.name = "draw" =>
          /\ ~op'.raised
          /\ log' = log /\ warned' = warned
          /\ calls' # <<>> => Len(calls') = Len(label[1].lines)
          /\ \A n \in 1..Len(calls') :
                IF DegenerateRadiusPx(calls'[n], view)
                THEN /\ label'[1].lines[n].artists = label[1].lines[n].artists
                     /\ calls'[n].drawn = <<>>
                ELSE /\ AllPlaced(label'[1].lines[n].artists)
                     /\ calls'[n].drawn
                            = CharsOfGlyphs(GlyphsOf(label[1].lines[n].artists))]_vars

\* C11 witness: of the two lines "A" and "B" drawn on declared radius 1/4
\* at the top of the ring, the second has baseline radius 0: it was skipped
\* and its glyph has no position, while the first was laid out and drawn
C11_Witness ==
    /\ op.name = "draw"
    /\ ~op.raised
    /\ Len(calls) = 2
    /\ TheLabel.text = <<"A", "\n", "B">>
    /\ calls[2].radius_data = Zero
    /\ DegenerateRadiusPx(calls[2], view)
    /\ IsNone(TheLabel.lines[2].artists[1][1].position)
    /\ calls[2].drawn = <<>>
    /\ ~DegenerateRadiusPx(calls[1], view)
    /\ AllPlaced(TheLabel.lines[1].artists)
    /\ rendered = <<"A">>

\* the lines that a label constructed now with the specification of the
\* current one would have after a draw under the current view
FreshlyDrawnLines ==
    DrawResult([TheLabel EXCEPT !.lines = Rebuild(<<>>, TheLabel.text, TheLabel.rebuilds)],
               view, dpi).lines

\* C12 as claimed: after any interleaving of view changes and draws, the
\* glyph poses exposed after the latest draw equal the poses that a freshly
\* constructed label with the same specification gets under the view current
\* at that draw: no pose from an earlier view survives.
C12_Claimed == op.name = "draw" => TheLabel.lines = FreshlyDrawnLines

\* C12 as amended: the same for the glyphs of every line that the latest draw
\* laid out; a line that this draw skipped (or every line, when the draw
\* returned before its loop) keeps the poses of the last draw that laid it out.
C12_PosesFollowView ==
    op.name = "draw" =>
        \A n \in 1..Len(calls) :
            ~DegenerateRadiusPx(calls[n], view) =>
                TheLabel.lines[n].artists = FreshlyDrawnLines[n].artists

\* C12 witness: the label "A" / "B" on declared radius 1/4 was drawn under
\* the zoomed view and then again under the default view: the second line,
\* skipped by the latest draw, still has the pose of the zoomed view, and the
\* first line has the pose of a freshly constructed label
C12_Witness ==
    /\ op.name = "draw"
    /\ view = DefaultView
    /\ Len(calls) = 2
    /\ DegenerateRadiusPx(calls[2], view)
    /\ ~IsNone(TheLabel.lines[2].artists[1][1].position)
    /\ ~DegenerateRadiusPx(calls[1], view)
    /\ TheLabel.lines[1].artists = FreshlyDrawnLines[1].artists
    /\ TheLabel.lines # FreshlyDrawnLines

\* the glyph objects of these lines: the place of each glyph (line,
\* character index) with the serial number of the _rebuild that made it
GlyphObjects(lines) ==
    UNION {{<<n, i, lines[n].artists[i][1].made>> :
               i \in {j \in 1..Len(lines[n].artists) : ~IsNone(lines[n].artists[j])}} :
           n \in 1..Len(lines)}

\* C13 as claimed: every draw rebuilds the glyphs: no glyph object that
\* existed before a draw is among the glyph objects after it.
C13_Claimed ==
    [][op'.name = "draw" =>
          GlyphObjects(label'[1].lines) \cap GlyphObjects(label[1].lines) = {}]_vars

\* C13 as amended: the glyph objects are rebuilt by construction and by
\* set_text only.  Every draw keeps exactly the glyph objects it found and
\* lays them out again (each glyph of a line it lays out gets its pose in
\* that draw); after set_text no glyph object from before the call is left.
C13_RebuildOnTextChangeOnly ==
    [][/\ op'.name = "draw" =>
             /\ GlyphObjects(label'[1].lines) = GlyphObjects(label[1].lines)
             /\ \A n \in 1..Len(calls') :
                    ~DegenerateRadiusPx(calls'[n], view) =>
                        AllPlaced(label'[1].lines[n].artists)
       /\ op'.name = "set_text" =>
             GlyphObjects(label'[1].lines) \cap GlyphObjects(label[1].lines) = {}]_vars

\* C13 witness: a label whose text was set anew has been drawn: its glyphs
\* are those made by set_text's _rebuild (the second on the label), placed
C13_Witness ==
    /\ op.name = "draw"
    /\ TheLabel.rebuilds = 2
    /\ Len(GetChildren(TheLabel.lines)) = 2
    /\ \A i \in 1..2 :
          /\ GetChildren(TheLabel.lines)[i].made = 2
          /\ ~IsNone(GetChildren(TheLabel.lines)[i].position)

\* glyph g exposes its character, its data-space position and its rotation
ExposesAll(g) ==
    /\ g.char \in Visible
    /\ ~IsNone(g.position)
    /\ ~IsNone(g.rotation)

\* C14 as claimed: after a draw of a visible label, every glyph returned by
\* get_children() exposes the character drawn, its data-space anchor position
\* and its rotation, also at the first draw after a set_text.
C14_Claimed ==
    (op.name = "draw" /\ TheLabel.visible) =>
        \A i \in 1..Len(GetChildren(TheLabel.lines)) :
            ExposesAll(GetChildren(TheLabel.lines)[i])

\* C14 as amended: after a draw of a visible label that reached its loop,
\* every glyph of every line whose device-pixel radius is finite and positive
\* exposes the three fields, also at the first draw after a set_text; the
\* glyphs of a line that no draw has laid out since the last _rebuild expose
\* only the character.
C14_FieldsExposed ==
    (op.name = "draw" /\ TheLabel.visible) =>
        /\ \A n \in 1..Len(calls) :
              ~DegenerateRadiusPx(calls[n], view) =>
                  \A i \in 1..Len(GlyphsOf(TheLabel.lines[n].artists)) :
                      ExposesAll(GlyphsOf(TheLabel.lines[n].artists)[i])
        /\ \A i \in 1..Len(GetChildren(TheLabel.lines)) :
              GetChildren(TheLabel.lines)[i].char \in Visible

\* C14 witness: the first draw after a set_text to "A" / "B" on declared
\* radius 1 has run: both glyphs expose the three fields
C14_Witness ==
    /\ op.name = "draw"
    /\ TheLabel.visible
    /\ TheLabel.rebuilds = 2
    /\ Len(calls) = 2
    /\ Len(GetChildren(TheLabel.lines)) = 2
    /\ \A i \in 1..2 : ExposesAll(GetChildren(TheLabel.lines)[i])

\* the label was declared with a radius <= 0 or with a NaN anchor angle
DegenerateDeclaration == RLe(TheLabel.radius, Zero) \/ IsNaN(TheLabel.theta)

\* C15: constructing and drawing a label with a declared radius that is zero
\* or negative, or with a NaN anchor angle, raises no exception, under any
\* view; with a NaN anchor angle the draw draws nothing.
C15_NoRaiseOnDegenerateInput ==
    (op.name \in {"init", "draw"} /\ DegenerateDeclaration) =>
        /\ ~op.raised
        /\ (op.name = "draw" /\ IsNaN(TheLabel.theta)) => rendered = <<>>

\* C15 witness: a label declared on radius -1/4 at the bottom of the ring has
\* been drawn without an exception; its first line came out on baseline
\* radius 0 and was skipped, its second line was drawn
C15_Witness ==
    /\ op.name = "draw"
    /\ ~op.raised
    /\ TheLabel.radius = Rat(-1, 4)
    /\ TheLabel.theta = Pi
    /\ Len(calls) = 2
    /\ calls[1].radius_data = Zero
    /\ calls[1].drawn = <<>>
    /\ calls[2].drawn # <<>>

\* the poses (position, rotation) of the glyphs of these lines, in order
PosesOf(lines) ==
    [i \in 1..Len(GetChildren(lines)) |->
        <<GetChildren(lines)[i].position, GetChildren(lines)[i].rotation>>]

\* the lines that a label constructed now with the specification of the
\* current one, but the opposite declared radius, would have after a draw
\* under the current view
NegatedRadiusLines ==
    DrawResult([TheLabel EXCEPT !.radius = RNeg(TheLabel.radius),
                                !.lines = Rebuild(<<>>, TheLabel.text, TheLabel.rebuilds)],
               view, dpi).lines

\* C16 as claimed: the declared radius is sign-free: two labels that differ
\* only in the sign of radius get the same position and rotation for every
\* glyph.
C16_Claimed ==
    (op.name = "draw" /\ TheLabel.radius # Zero) =>
        PosesOf(FreshlyDrawnLines) = PosesOf(NegatedRadiusLines)

\* what _layout_line does with the line of call c on the opposite baseline
\* radius
MirroredLayout(c) ==
    LayoutLine(TheLabel,
               view, dpi,
               LineGlyphs(TheLabel.lines[c.line_idx + 1].text, TheLabel.rebuilds),
               RNeg(c.radius_data), c.start_theta, c.direction_sign)

\* the point opposite to p through the label's center
Opposite(p) ==
    <<RSub(RMul(Int2R(2), TheLabel.center[1]), p[1]),
      RSub(RMul(Int2R(2), TheLabel.center[2]), p[2])>>

\* C16 as amended: only the magnitude of the baseline radius of a line
\* (radius_data) determines its device-pixel radius, the glyph angles and the
\* glyph rotations; its sign decides the side: on the opposite baseline radius
\* every glyph gets the same rotation at the position opposite through the
\* center.
C16_SignMirrorsPositions ==
    op.name = "draw" =>
        \A n \in 1..Len(calls) :
            ~DegenerateRadiusPx(calls[n], view) =>
                /\ MirroredLayout(calls[n]).radius_px = calls[n].radius_px
                /\ MirroredLayout(calls[n]).thetas = calls[n].thetas
                /\ \A i \in 1..Len(TheLabel.lines[n].artists) :
                      ~IsNone(TheLabel.lines[n].artists[i]) =>
                          /\ MirroredLayout(calls[n]).artists[i][1].rotation
                                = TheLabel.lines[n].artists[i][1].rotation
                          /\ MirroredLayout(calls[n]).artists[i][1].position
                                = <<Opposite(TheLabel.lines[n].artists[i][1].position[1])>>

\* C16 witness: the label "A" declared on radius -1 and anchored at the top
\* of the ring has been drawn: its glyph lies below the center
C16_Witness ==
    /\ op.name = "draw"
    /\ TheLabel.radius = Int2R(-1)
    /\ TheLabel.theta = Zero
    /\ TheLabel.text = <<"A">>
    /\ Len(calls) = 1
    /\ ~DegenerateRadiusPx(calls[1], view)
    /\ RLt(TheLabel.lines[1].artists[1][1].position[1][2], Zero)
    /\ PosesOf(FreshlyDrawnLines) # PosesOf(NegatedRadiusLines)

\* the centerline radius of the line of call c: its baseline radius with
\* the baseline correction undone
CenterlineRadius(c) ==
    RAdd(c.radius_data, RSigned(c.direction_sign, CenterToBaselineOf(c)))

\* the device-vertical coordinate of the centerline of the line of call c at
\* the anchor angle (a larger coordinate is higher on screen)
CenterlineY(c) == TransData(view, RadialPoint(TheLabel, CenterlineRadius(c)))[2]

\* no line's centerline is lower on screen, at the anchor, than that of the
\* next line
ReadsTopToBottom ==
    \A n \in 1..(Len(calls) - 1) : RLe(CenterlineY(calls[n + 1]), CenterlineY(calls[n]))

\* C17 as claimed: for every anchor angle and every view, in both stacking
\* modes, a multi-line label reads top-to-bottom in screen space: at the
\* anchor the centerline of line i is no lower on screen than that of line i+1.
C17_Claimed == (op.name = "draw" /\ Len(calls) >= 2) => ReadsTopToBottom

\* C17 as amended: the same for every label with a line spacing >= 0 (the
\* default, 1.2 font sizes, is positive); a negative line_spacing stacks the
\* lines in the opposite order.
C17_ReadsTopToBottom ==
    (op.name = "draw" /\ Len(calls) >= 2 /\ RLe(Zero, LineSpacingPoints(TheLabel)))
        => ReadsTopToBottom

\* C17 witness: three lines anchored at pi have been drawn under the
\* y-inverted view, where outward is up at that anchor: each line's
\* centerline is strictly higher on screen than the next one's
C17_Witness ==
    /\ op.name = "draw"
    /\ view = InvertedView
    /\ TheLabel.theta = Pi
    /\ IsNone(TheLabel.line_spacing)
    /\ Len(calls) = 3
    /\ OutwardIsUp(TheLabel, view)
    /\ \A n \in 1..2 : RLt(CenterlineY(calls[n + 1]), CenterlineY(calls[n]))

\* the arguments of the Speedometer construction made last
Given == result.args[1]

\* the construction made last raised ValueError with this message
RaisedValueError(message) ==
    result.raised = Raises("ValueError", message)

\* the construction made last succeeded and the object holds start_value,
\* end_value, radius and colors as given (the default colours when colors
\* was None), with n_colors the number of colours
StoredAsGiven ==
    /\ IsNone(result.raised)
    /\ ~IsNone(speedo)
    /\ speedo[1].start_value = Given.start_value
    /\ speedo[1].end_value = Given.end_value
    /\ speedo[1].radius = Given.radius
    /\ speedo[1].colors = (IF IsNone(Given.colors) THEN DefaultColors ELSE Given.colors[1])
    /\ speedo[1].n_colors = Len(speedo[1].colors)

\* one of the three conditions the constructor validates holds of the
\* arguments
Refused ==
    \/ RLe(Given.end_value, Given.start_value)
    \/ (~IsNone(Given.colors) /\ Given.colors[1] = <<>>)
    \/ RLe(Given.radius, Zero)

\* the construction raised ValueError with one of the three messages, and
\* the condition of that message holds
RaisedAsValidated ==
    \/ /\ RaisedValueError("end_value must be greater than start_value")
       /\ RLe(Given.end_value, Given.start_value)
    \/ /\ RaisedValueError("colors list cannot be empty")
       /\ ~IsNone(Given.colors) /\ Given.colors[1] = <<>>
    \/ /\ RaisedValueError("radius must be positive")
       /\ RLe(Given.radius, Zero)

\* C18 as claimed: the construction raises ValueError exactly when
\* end_value <= start_value, colors is empty or radius <= 0, with the
\* message of a condition that holds; for every other input it succeeds and
\* stores start_value, end_value, radius and colors as given, with n_colors
\* the number of colours.
C18_Claimed ==
    result.call = "Speedometer" =>
        /\ Refused => RaisedAsValidated
        /\ ~Refused => StoredAsGiven

\* C18 as amended: the same for every input whose segments_per_color is not
\* negative; with a negative segments_per_color and none of the three
\* conditions the construction raises too, a ValueError of np.repeat with
\* another message, and constructs nothing.
C18_ValidatesConstruction ==
    result.call = "Speedometer" =>
        /\ Refused => RaisedAsValidated
        /\ (~Refused /\ Given.segments_per_color >= 0) => StoredAsGiven
        /\ (~Refused /\ Given.segments_per_color < 0) =>
              /\ ~IsNone(result.raised)
              /\ result.raised[1].type = "ValueError"
              /\ ~RaisedAsValidated
              /\ IsNone(speedo)

\* C18 witness: a construction over the range 0..10 with three colours has
\* succeeded and counts three colours
C18_Witness ==
    /\ result.call = "Speedometer"
    /\ ~Refused
    /\ StoredAsGiven
    /\ Given.start_value = Zero
    /\ Given.end_value = Int2R(10)
    /\ speedo[1].n_colors = 3

\* the arguments of the Speedometer draw that is completing
DrawArgs == result'.args[1]

\* the draw that is completing opened one figure, drew on its axes and
\* returned the pair of them
ReturnsNewFigAx ==
    /\ Len(figures') = Len(figures) + 1
    /\ \A f \in 1..Len(figures) : figures'[f] = figures[f]
    /\ figures'[Len(figures')].draws = 1
    /\ result'.drawn[1].on = Len(figures')
    /\ result'.returned = <<[fig |-> Len(figures'), ax |-> Len(figures')]>>

\* the draw that is completing returned None, drew on the axes supplied and
\* opened no figure
ReturnsNoneOnSupplied ==
    /\ Len(figures') = Len(figures)
    /\ \A f \in 1..Len(figures) :
          figures'[f].draws = figures[f].draws + (IF f = DrawArgs.ax THEN 1 ELSE 0)
    /\ result'.drawn[1].on = DrawArgs.ax
    /\ result'.returned = None

\* C19: a Speedometer.draw that returns returns a (fig, ax) pair of a new
\* figure and its axes when called with ax=None, and returns None when an
\* axes is supplied, in which case it draws on that axes and creates no new
\* figure.
C19_DrawReturnValue ==
    [][(result'.call = "draw" /\ IsNone(result'.raised)) =>
          IF DrawArgs.ax = 0 THEN ReturnsNewFigAx ELSE ReturnsNoneOnSupplied]_vars

\* C19 witness: a draw on the axes of the only figure there is, opened by
\* the caller, has returned None and left it the only figure
C19_Witness ==
    /\ result.call = "draw"
    /\ IsNone(result.raised)
    /\ result.args[1].ax = 1
    /\ Len(figures) = 1
    /\ figures[1].draws = 1
    /\ result.returned = None
    /\ result.drawn[1].on = 1

\* C20 as claimed: on a successfully constructed Speedometer, draw(value)
\* raises nothing for any numeric value, with snap_to_pos on or off, after
\* any number of earlier draws.
C20_Claimed == result.call = "draw" => IsNone(result.raised)

\* C20 as amended: the same on every Speedometer whose segments_per_color
\* is at least 1; with segments_per_color = 0 the construction succeeds and
\* every draw raises.
C20_DrawNeverRaises ==
    result.call = "draw" =>
        (IsNone(result.raised) <=> speedo[1].segments_per_color >= 1)

\* C20 witness: a snapping Speedometer over 0..10 has drawn the value 15,
\* above end_value, on an axes it had drawn on before, and raised nothing
C20_Witness ==
    /\ result.call = "draw"
    /\ IsNone(result.raised)
    /\ speedo[1].snap_to_pos
    /\ speedo[1].n_segments = 10
    /\ result.args[1].value = Int2R(15)
    /\ result.args[1].ax # 0
    /\ figures[result.args[1].ax].draws = 2
    /\ result.drawn[1].arrow_index = 9

\* the value the gauge shows at an angle: the scale of the arrow (line 369)
\* read backwards, start_value at end_angle and end_value at start_angle
ValueAt(self, angle) ==
    RAdd(self.start_value,
         RMul(RDiv(RSub(Int2R(self.end_angle), angle),
                   Int2R(self.end_angle - self.start_angle)),
              RSub(self.end_value, self.start_value)))

\* the lower and the upper end of the value interval of a wedge
WedgeLow(self, w) == ValueAt(self, w.theta2)
WedgeHigh(self, w) == ValueAt(self, w.theta1)

\* the Speedometer draw made last completed
DrewGauge == result.call = "draw" /\ IsNone(result.raised)

\* the value passed to the draw made last, and its wedges
DrawnValue == result.args[1].value
DrawnWedges == result.drawn[1].wedges

\* C21: in Speedometer.draw a coloured wedge is drawn faded (fade_alpha,
\* fade_hatch) if and only if its value interval lies entirely above the
\* value passed to draw; every other wedge is drawn with alpha 1 and no
\* hatch.  (A wedge whose interval starts exactly at the value may be drawn
\* either way.)
C21_FadedBeyondValue ==
    DrewGauge =>
        \A j \in 1..Len(DrawnWedges) :
            /\ DrawnWedges[j].faded => RLe(DrawnValue, WedgeLow(speedo[1], DrawnWedges[j]))
            /\ RLt(DrawnValue, WedgeLow(speedo[1], DrawnWedges[j])) => DrawnWedges[j].faded

\* the angular midpoint of a wedge
WedgeCenter(w) == RDiv(RAdd(w.theta1, w.theta2), Int2R(2))

\* the value interval of the wedge contains the value
WedgeContains(self, w, value) ==
    RLe(WedgeLow(self, w), value) /\ RLe(value, WedgeHigh(self, w))

\* C22: with snap_to_pos=True and start_value <= value <= end_value the
\* arrow angle equals the angular midpoint of the wedge whose value interval
\* contains value (of one of the two when value is on their common edge).
C22_SnapsToContainingWedge ==
    (/\ DrewGauge
     /\ speedo[1].snap_to_pos
     /\ RLe(speedo[1].start_value, DrawnValue)
     /\ RLe(DrawnValue, speedo[1].end_value))
        => \E j \in 1..Len(DrawnWedges) :
              /\ WedgeContains(speedo[1], DrawnWedges[j], DrawnValue)
              /\ result.drawn[1].arrow_angle = WedgeCenter(DrawnWedges[j])

\* call c laid its line out (it computed radius_px and the angles)
LaidOutCall(c) == ~IsNone(c.radius_px) /\ Len(c.thetas) >= 1

\* the angle of the leading edge of the first character and of the trailing
\* edge of the last character of call c's line
LeadingEdge(c) == RSub(c.thetas[1], HalfSpan(c, 1))
TrailingEdge(c) == RAdd(c.thetas[Len(c.thetas)], HalfSpan(c, Len(c.thetas)))

\* the line's angular extent, signed with the direction of call c
SignedExtent(c) == RSigned(c.direction_sign, Extent(c))

\* the alignment of call c's line about its anchor angle, as C23 states it
AlignedAsDeclared(c) ==
    /\ TheLabel.align = "start" => LeadingEdge(c) = c.start_theta
    /\ TheLabel.align = "center" =>
          /\ LeadingEdge(c) = RSub(c.start_theta, RDiv(SignedExtent(c), Int2R(2)))
          /\ RSub(c.start_theta, LeadingEdge(c)) = RSub(TrailingEdge(c), c.start_theta)
    /\ TheLabel.align = "end" =>
          /\ LeadingEdge(c) = RSub(c.start_theta, SignedExtent(c))
          /\ TrailingEdge(c) = c.start_theta

\* C23: alignment shifts the start of a line by its angular extent E against
\* the direction sign s: with 'start' the leading edge of the first character
\* is at the anchor theta; with 'center' it is at theta - s*E/2 and the
\* trailing edge of the last character is as far from theta on the other
\* side; with 'end' it is at theta - s*E and the trailing edge of the last
\* character is at theta.
C23_AlignmentShiftsStart ==
    op.name = "draw" =>
        \A n \in 1..Len(calls) : LaidOutCall(calls[n]) => AlignedAsDeclared(calls[n])

\* C23 witness: the line "AB" with letter spacing 2, aligned 'end' and read
\* counterclockwise, has been drawn: its last character ends at the anchor
\* and its first one starts one extent away from it
C23_Witness ==
    /\ op.name = "draw"
    /\ TheLabel.align = "end"
    /\ TheLabel.text = <<"A", "B">>
    /\ TheLabel.letter_spacing = Int2R(2)
    /\ Len(calls) = 1
    /\ LaidOutCall(calls[1])
    /\ calls[1].direction_sign = -1
    /\ TrailingEdge(calls[1]) = calls[1].start_theta
    /\ LeadingEdge(calls[1]) # calls[1].start_theta

\* the angular extent that the alignment of call c's line used: the shift of
\* the start for 'end', twice the shift for 'center'
UsedExtent(c) ==
    RMul(Int2R(IF TheLabel.align = "center" THEN 2 ELSE 1),
         RSigned(c.direction_sign, RSub(c.start_theta, LeadingEdge(c))))

\* the angle from the leading edge of the first character to the trailing
\* edge of the last, along the direction of call c
WalkedExtent(c) == RSigned(c.direction_sign, RSub(TrailingEdge(c), LeadingEdge(c)))

\* the number of glyphs (non-whitespace characters) of call c's line
GlyphCount(c) == Cardinality(GlyphIndices(c))

\* the sum of the advances of the characters of call c's line, in pixels
SumAdvancesPx(c) ==
    RSum([i \in 1..Len(CharsOfCall(c)) |-> AdvPx(CharsOfCall(c)[i])])

\* the extent C24 claims: (advances + letter spacing * (glyph count - 1))
\* over radius_px
GlyphCountExtent(c) ==
    RDiv(RAdd(SumAdvancesPx(c),
              RMul(LetterSpacingPx, Int2R(IMax(GlyphCount(c) - 1, 0)))),
         c.radius_px[1])

\* call c's line was laid out with an alignment that uses the extent
AlignedCall(c) == LaidOutCall(c) /\ TheLabel.align # "start"

\* C24 as claimed: for every line, including lines that contain whitespace,
\* the extra spacing in the line's angular extent is the letter spacing in
\* pixels x (glyph count - 1), the glyphs being the non-whitespace
\* characters, and the extent is (sum of advances + that) / radius_px.
C24_Claimed ==
    op.name = "draw" =>
        \A n \in 1..Len(calls) :
            AlignedCall(calls[n]) => UsedExtent(calls[n]) = GlyphCountExtent(calls[n])

\* C24 as amended: the extra spacing is the letter spacing in pixels x
\* (character count - 1), whitespace characters counted, and the extent is
\* (sum of advances + that) / radius_px; it is the extent the alignment
\* uses and the angle the characters span from edge to edge.
C24_ExtentCountsCharacters ==
    op.name = "draw" =>
        \A n \in 1..Len(calls) :
            /\ AlignedCall(calls[n]) => UsedExtent(calls[n]) = Extent(calls[n])
            /\ LaidOutCall(calls[n]) => WalkedExtent(calls[n]) = Extent(calls[n])

\* C24 witness: the line "A B" with letter spacing 2, aligned 'center', has
\* been drawn: two glyphs, three characters, and an extent with two letter
\* spacings
C24_Witness ==
    /\ op.name = "draw"
    /\ TheLabel.align = "center"
    /\ TheLabel.text = <<"A", " ", "B">>
    /\ TheLabel.letter_spacing = Int2R(2)
    /\ Len(calls) = 1
    /\ AlignedCall(calls[1])
    /\ GlyphCount(calls[1]) = 2
    /\ UsedExtent(calls[1]) = Extent(calls[1])
    /\ UsedExtent(calls[1]) # GlyphCountExtent(calls[1])

\* the start angle of call c's line after alignment, as the alignment rule
\* states it
AlignedStartOf(c) ==
    IF TheLabel.align = "center"
    THEN RSub(c.start_theta, RDiv(SignedExtent(c), Int2R(2)))
    ELSE IF TheLabel.align = "end"
    THEN RSub(c.start_theta, SignedExtent(c))
    ELSE c.start_theta

\* the advances and letter spacings of the characters before character i of
\* call c's line, in pixels
RECURSIVE PrecedingPx(_, _)
PrecedingPx(c, i) ==
    IF i <= 1 THEN Zero
    ELSE RAdd(PrecedingPx(c, i - 1),
              RAdd(AdvPx(CharsOfCall(c)[i - 1]), LetterSpacingPx))

\* the angle the pose rule gives character i of call c's line
PoseTheta(c, i) ==
    RAdd(AlignedStartOf(c),
         RSigned(c.direction_sign,
                 RDiv(RAdd(PrecedingPx(c, i),
                           RDiv(AdvPx(CharsOfCall(c)[i]), Int2R(2))),
                      c.radius_px[1])))

\* the position the pose rule gives a glyph of call c's line at angle t
PosePosition(c, t) ==
    <<RAdd(TheLabel.center[1], RMul(c.radius_data, NpSin(t))),
      RAdd(TheLabel.center[2], RMul(c.radius_data, NpCos(t)))>>

\* the rotation the pose rule gives a glyph of call c's line at angle t
PoseRotation(c, t) ==
    RAdd(RNeg(Rad2Deg(t)), Int2R(IF c.direction_sign = -1 THEN 180 ELSE 0))

\* the glyph object of character i of call c's line
GlyphOfCall(c, i) == TheLabel.lines[c.line_idx + 1].artists[i][1]

\* C25: every glyph of a laid-out line is posed at
\* theta_i = aligned start + sign x (advances and letter spacings of all the
\* preceding characters + half its own advance) / radius_px, at the position
\* center + line radius x (sin theta_i, cos theta_i), with the rotation
\* -degrees(theta_i), plus 180 exactly when the direction sign is -1.
C25_GlyphPose ==
    op.name = "draw" =>
        \A n \in 1..Len(calls) :
            \A i \in GlyphIndices(calls[n]) :
                /\ calls[n].thetas[i] = PoseTheta(calls[n], i)
                /\ GlyphOfCall(calls[n], i).position
                      = <<PosePosition(calls[n], PoseTheta(calls[n], i))>>
                /\ GlyphOfCall(calls[n], i).rotation
                      = <<PoseRotation(calls[n], PoseTheta(calls[n], i))>>

\* C25 witness: the line "A B" with letter spacing 2, aligned 'center', has
\* been drawn counterclockwise: the glyph "B" follows a glyph and a space, is
\* turned by 180 more than -degrees(theta_i) and lies off the anchor angle
C25_Witness ==
    /\ op.name = "draw"
    /\ TheLabel.align = "center"
    /\ TheLabel.text = <<"A", " ", "B">>
    /\ TheLabel.letter_spacing = Int2R(2)
    /\ Len(calls) = 1
    /\ calls[1].direction_sign = -1
    /\ GlyphIndices(calls[1]) = {1, 3}
    /\ calls[1].thetas[3] # calls[1].start_theta
    /\ GlyphOfCall(calls[1], 3).rotation
          = <<RAdd(RNeg(Rad2Deg(calls[1].thetas[3])), Int2R(180))>>
    /\ GlyphOfCall(calls[1], 3).position
          = <<PosePosition(calls[1], calls[1].thetas[3])>>

\* the characters of call c's line without character i
WithoutChar(c, i) ==
    SubSeq(CharsOfCall(c), 1, i - 1) \o SubSeq(CharsOfCall(c), i + 1, Len(CharsOfCall(c)))

\* what _layout_line does, with the arguments of call c, on call c's line
\* without character i
AdjacentLayout(c, i) ==
    LayoutLine(TheLabel, view, dpi, LineGlyphs(WithoutChar(c, i), TheLabel.rebuilds),
               c.radius_data, c.start_theta, c.direction_sign)

\* the (1-based) indices of the whitespace characters of call c's line that
\* stand between two glyphs
SpacesBetweenGlyphs(c) ==
    {i \in 2..(Len(c.thetas) - 1) :
        /\ IsSpace(CharsOfCall(c)[i])
        /\ (i - 1) \in GlyphIndices(c)
        /\ (i + 1) \in GlyphIndices(c)}

\* the angle from the glyph before the whitespace character i of call c's
\* line to the glyph after it, along the direction
GapAround(c, i) ==
    RSigned(c.direction_sign, RSub(c.thetas[i + 1], c.thetas[i - 1]))

\* the angle between the same two glyphs, along the direction, when the
\* whitespace character is taken out and they are adjacent
GapAdjacent(c, i) ==
    RSigned(c.direction_sign,
            RSub(AdjacentLayout(c, i).thetas[i], AdjacentLayout(c, i).thetas[i - 1]))

\* C26: a whitespace character consumes its advance and the letter spacing
\* that follows it but emits no glyph: no glyph is made or drawn for it, and
\* the angular gap between the two glyphs around it is larger than their gap
\* when adjacent by (its advance + one letter spacing) / radius_px.
C26_WhitespaceTakesRoom ==
    op.name = "draw" =>
        \A n \in 1..Len(calls) :
            LaidOutCall(calls[n]) =>
                /\ \A i \in 1..Len(calls[n].thetas) :
                      IsSpace(CharsOfCall(calls[n])[i]) => i \notin GlyphIndices(calls[n])
                /\ Len(calls[n].drawn) = GlyphCount(calls[n])
                /\ \A i \in SpacesBetweenGlyphs(calls[n]) :
                      RSub(GapAround(calls[n], i), GapAdjacent(calls[n], i))
                          = RDiv(RAdd(AdvPx(" "), LetterSpacingPx), calls[n].radius_px[1])

\* C26 witness: the line "A B" with letter spacing 2 has been drawn: two
\* glyphs were drawn, and the space between them widened their gap
C26_Witness ==
    /\ op.name = "draw"
    /\ TheLabel.text = <<"A", " ", "B">>
    /\ TheLabel.letter_spacing = Int2R(2)
    /\ Len(calls) = 1
    /\ LaidOutCall(calls[1])
    /\ calls[1].drawn = <<"A", "B">>
    /\ SpacesBetweenGlyphs(calls[1]) = {2}
    /\ RLt(GapAdjacent(calls[1], 2), GapAround(calls[1], 2))

\* a draw of a label stacked in 'center' mode
CenterStackDrawn == op.name = "draw" /\ TheLabel.radii = "center"

\* the number of lines of the label
NumLines == Len(TheLabel.lines)

\* how far the centerline of call c's line lies outside the declared radius
CenterlineOffset(c) == RSub(CenterlineRadius(c), TheLabel.radius)

\* the offset factor that the 'center' rule states for the line with
\* (0-based) index i
CenterFactor(i) ==
    IF OutwardIsUp(TheLabel, view)
    THEN RSub(Rat(NumLines - 1, 2), Int2R(i))
    ELSE RSub(Int2R(i), Rat(NumLines - 1, 2))

\* the sum of the centerline offsets of the first n calls
RECURSIVE OffsetSum(_)
OffsetSum(n) ==
    IF n = 0 THEN Zero ELSE RAdd(OffsetSum(n - 1), CenterlineOffset(calls[n]))

\* C27: in 'center' stacking with L lines the offset factor of line i is
\* (L-1)/2 - i when outward is up and i - (L-1)/2 otherwise: the centerline
\* of a line lies that many line spacings outside the declared radius, lines
\* i and L-1-i lie at opposite offsets, the offsets sum to zero, and with an
\* odd L the middle line lies exactly on the declared radius.
C27_CenterStacking ==
    CenterStackDrawn =>
        /\ \A n \in 1..Len(calls) :
              CenterlineOffset(calls[n])
                 = RMul(CenterFactor(calls[n].line_idx), LineSpacingData(TheLabel, view, dpi))
        /\ Len(calls) = NumLines =>
              /\ \A n \in 1..NumLines :
                    CenterlineOffset(calls[n]) = RNeg(CenterlineOffset(calls[NumLines + 1 - n]))
              /\ OffsetSum(NumLines) = Zero
              /\ NumLines % 2 = 1 =>
                    CenterlineRadius(calls[(NumLines + 1) \div 2]) = TheLabel.radius

\* C27 witness: three lines with the default line spacing have been drawn in
\* 'center' mode at the bottom of the ring, where outward is down: the first
\* line lies inside the declared radius, the middle one on it, the last
\* outside
C27_Witness ==
    /\ CenterStackDrawn
    /\ TheLabel.theta = Pi
    /\ view = DefaultView
    /\ IsNone(TheLabel.line_spacing)
    /\ ~OutwardIsUp(TheLabel, view)
    /\ Len(calls) = 3
    /\ RLt(CenterlineRadius(calls[1]), TheLabel.radius)
    /\ CenterlineRadius(calls[2]) = TheLabel.radius
    /\ RLt(TheLabel.radius, CenterlineRadius(calls[3]))
    /\ CenterlineOffset(calls[1]) = RNeg(CenterlineOffset(calls[3]))

\* the line spacing in points as stated: the explicit line_spacing when
\* one was given, else font size x linespacing multiplier
StatedSpacingPoints ==
    IF TheLabel.line_spacing # None THEN TheLabel.line_spacing[1]
    ELSE RMul(Int2R(TheLabel.font.size), TheLabel.linespacing)

\* the pixels that one data unit along the anchor direction covers
RadialPxPerData == HypotRadial(view, Int2R(1), TheLabel.theta)

\* the stated line spacing in data units: points -> pixels by dpi / 72,
\* pixels -> data units by the radial ratio at the anchor
StatedSpacingData == RDiv(RMul(StatedSpacingPoints, Rat(dpi, 72)), RadialPxPerData)

\* the offset factor of the line of call c
FactorOf(c) ==
    OffsetFactor(TheLabel.radii, OutwardIsUp(TheLabel, view), NumLines, c.line_idx)

\* C28: a line's centerline radius is the declared radius + offset factor x
\* line spacing in data units; the line spacing in points is the explicit
\* line_spacing when one was given (an explicit 0 included), else font size
\* x linespacing multiplier (1.2 by default), converted to pixels by dpi / 72
\* and to data units by the radial pixels-per-data ratio at the anchor.
C28_CenterlineRadius ==
    op.name = "draw" =>
        \A n \in 1..Len(calls) :
            CenterlineRadius(calls[n])
                = RAdd(TheLabel.radius, RMul(FactorOf(calls[n]), StatedSpacingData))

\* C28 witness: two lines with an explicit line spacing of 0 have been drawn
\* at 144 dpi under the zoomed view: both centerlines lie on the declared
\* radius, where the default spacing would have set them apart
C28_Witness ==
    /\ op.name = "draw"
    /\ TheLabel.line_spacing = <<Zero>>
    /\ dpi = 144
    /\ view = ZoomedView
    /\ Len(calls) = 2
    /\ FactorOf(calls[1]) # FactorOf(calls[2])
    /\ CenterlineRadius(calls[1]) = TheLabel.radius
    /\ CenterlineRadius(calls[2]) = TheLabel.radius
    /\ RMul(Int2R(TheLabel.font.size), TheLabel.linespacing) # Zero

\* the Speedometer that was drawn
TheGauge == speedo[1]

\* the label texts of the draw made last, along the arc from start_angle
DrawnLabels == result.drawn[1].labels

\* the value of the tick whose label is the i-th along the arc from
\* start_angle; None where the label is ''
TickAt(i) == Reversed(Labels(TheGauge, LabelValues(TheGauge)))[i]

\* a draw without snapping went through
DrewProportional == DrewGauge /\ ~TheGauge.snap_to_pos

\* C29: with the default labels and snap_to_pos=False the arrow and the
\* labels use one scale: for every labelled tick value v the arrow drawn for
\* v points at the angle where the label of v is placed; in particular
\* start_value is at end_angle and end_value at start_angle.
C29_ArrowMeetsLabels ==
    DrewProportional =>
        /\ \A i \in 1..Len(DrawnLabels) :
              ~IsNone(TickAt(i)) =>
                  /\ ~IsNone(DrawnLabels[i].label)
                  /\ ProportionalAngle(TheGauge, TickAt(i)[1]) = DrawnLabels[i].angle
                  /\ DrawnValue = TickAt(i)[1] =>
                        result.drawn[1].arrow_angle = DrawnLabels[i].angle
        /\ DrawnValue = TheGauge.start_value =>
              result.drawn[1].arrow_angle = Int2R(TheGauge.end_angle)
        /\ DrawnValue = TheGauge.end_value =>
              result.drawn[1].arrow_angle = Int2R(TheGauge.start_angle)
        /\ TickAt(1) = <<TheGauge.end_value>>
        /\ TickAt(Len(DrawnLabels)) = <<TheGauge.start_value>>

\* C29 witness: a gauge over 0..10 with three colours of two segments each,
\* not snapping, was drawn for the tick value 20/3: the arrow points at the
\* label 6.67, the third of seven along the arc, which is at neither end
C29_Witness ==
    /\ DrewProportional
    /\ TheGauge.start_value = Zero
    /\ TheGauge.n_colors = 3
    /\ TheGauge.segments_per_color = 2
    /\ DrawnValue = Rat(20, 3)
    /\ Len(DrawnLabels) = 7
    /\ TickAt(3) = <<Rat(20, 3)>>
    /\ DrawnLabels[3].label = <<Rat(667, 100)>>
    /\ result.drawn[1].arrow_angle = DrawnLabels[3].angle
    /\ IsNone(DrawnLabels[2].label)

\* the label is not visible, or its axes or its figure is unset
HiddenOrDetached(lbl) == ~lbl.visible \/ IsNone(lbl.axes) \/ IsNone(lbl.figure)

\* C30: draw() on a label that is not visible, or whose axes or figure is
\* unset, does no layout: no glyph's transform, position or rotation
\* changes, the text and the list of glyphs stay the same, and nothing is
\* drawn.
C30_HiddenDrawDoesNothing ==
    [][(op'.name = "draw" /\ HiddenOrDetached(TheLabel))
          => /\ label' = label
             /\ calls' = <<>>
             /\ rendered' = <<>>
             /\ ~op'.raised]_vars

\* C30 witness: a label that was drawn under one view, then hidden or
\* detached, has been drawn again under another view: nothing was drawn and
\* its glyphs keep the device positions of the first draw
C30_Witness ==
    /\ op.name = "draw"
    /\ HiddenOrDetached(TheLabel)
    /\ TheLabel.text = <<"A", "B">>
    /\ rendered = <<>>
    /\ Len(PlacedGlyphs) = 2
    /\ \A i \in 1..2 :
          PlacedGlyphs[i].px # <<TransData(view, PlacedGlyphs[i].position[1])>>

====
